---- MODULE Spec2Model ----
(***************************************************************************)
(* Time-stepped animation pages of the Physics repository.                 *)
(*                                                                         *)
(* Every page is a requestAnimationFrame driver (play / pause / reset      *)
(* buttons, a frame callback `animate`) around a closed-form stepper.      *)
(* One page is loaded per behaviour (variable `page`); the driver fields   *)
(* are the page's `state` object, the stepper's fields are the record      *)
(* `sim`.                                                                  *)
(*                                                                         *)
(* Units: times are integer milliseconds.  Heights of the g = 10 pages are *)
(* micrometres (0.5*g*t^2 with t in ms is 5*t^2 um), velocities are mm/s   *)
(* (g*t with t in ms is 10*t mm/s).                                        *)
(***************************************************************************)
EXTENDS Integers, Sequences, FiniteSets, TLC

VARIABLES
    page,            \* which page's script is loaded
    isPlaying,       \* state.isPlaying
    animationFrame,  \* state.animationFrame: last handle returned by requestAnimationFrame, 0 = null
    frames,          \* handles requested and neither fired nor cancelled (the browser's callback list)
    playDisabled,    \* document.getElementById('play-btn').disabled
    pauseDisabled,   \* document.getElementById('pause-btn').disabled
    sim,             \* the page's model (stepper state)
    timers,          \* number of pending setTimeout callbacks of each kind
    driver,          \* the driver's state: "Stopped", "Playing" or "Paused"
    calls            \* what the last handler did: the callbacks it invoked, and the
                     \* elapsed-time delta dt (ms, before the speed factor) it computed

vars == <<page, isPlaying, animationFrame, frames, playDisabled, pauseDisabled,
          sim, timers, driver, calls>>

(***************************************************************************)
(* Platform: requestAnimationFrame / cancelAnimationFrame.                 *)
(***************************************************************************)

\* requestAnimationFrame returns a handle distinct from every handle that is
\* outstanding (fs) or still stored in the page (held).
NewHandle(fs, held) ==
    CHOOSE h \in 1..(Cardinality(fs) + 2) : h \notin fs /\ h # held

\* if (state.animationFrame) cancelAnimationFrame(state.animationFrame);
CancelFrame(fs, h) == IF h # 0 THEN fs \ {h} ELSE fs

\* Bound of the model: a click on Play is explored only while fewer than this
\* many frames are outstanding.
MaxOutstanding == 3

\* Bound of the model: at most this many pending setTimeout callbacks of one
\* kind are tracked; a callback scheduled beyond that is not explored.
MaxPendingTimers == 2

\* the setTimeout callbacks that change model state
TimerKinds == {"at_target", "at_max", "show_masses"}

\* setTimeout(callback, delay) for each kind in ks
AddTimers(tm, ks) ==
    [k \in DOMAIN tm |-> IF k \in ks /\ tm[k] < MaxPendingTimers THEN tm[k] + 1 ELSE tm[k]]

\* a pending callback of kind k fires
TakeTimer(tm, k) == [tm EXCEPT ![k] = @ - 1]

\* Wall-clock gaps (ms) between a frame's timestamp and state.lastTimestamp.
\* Two callbacks of one animation tick receive the same timestamp (gap 0); a
\* backgrounded tab resumes with a gap of a second or more.
Gaps == {0, 100, 200, 1000}

NoCalls(op) ==
    [op |-> op, stepper |-> FALSE, render |-> FALSE, raf |-> FALSE, terminal |-> FALSE, dt |-> 0]

\* a frame callback that ran the stepper with delta dt, rendered, and did or did
\* not request the next frame
FrameCalls(dt, term, raf) ==
    [op |-> "frame", stepper |-> TRUE, render |-> TRUE, raf |-> raf, terminal |-> term, dt |-> dt]

\* animate() without its guard: the callback requests the next frame although
\* the driver is not playing
GuardedReturnReschedules(h) ==
    LET fs == frames \ {h}
        nh == NewHandle(fs, animationFrame)
    IN /\ frames' = fs \cup {nh}
       /\ animationFrame' = nh
       /\ calls' = [NoCalls("frame") EXCEPT !.raf = TRUE]
       /\ UNCHANGED <<page, isPlaying, playDisabled, pauseDisabled, sim, timers, driver>>

\* if (!state.isPlaying) return;
GuardedReturn(h) ==
    /\ frames' = frames \ {h}
    /\ calls' = NoCalls("frame")
    /\ UNCHANGED <<page, isPlaying, animationFrame, playDisabled, pauseDisabled,
                   sim, timers, driver>>

(***************************************************************************)
(* Falling-water-drops page (src/wavespeed-simulation/simulation.js).      *)
(***************************************************************************)

\* CONFIG.physics
DropsG == 10
DropsH == 20
DropsTotalTime == 2000
DropsNumDrops == 6
DropsDt == 400
\* CONFIG.animation.realTimeScale is 0.5: one real second is half a simulated one
DropsRealTimeScaleDen == 2
\* state.speed at page load
DropsSpeed == 1

DropsHeight0 == DropsH * 1000000

\* new Drop(id, releaseTime, color)
NewDrop(releaseTime) ==
    [releaseTime |-> releaseTime, y |-> DropsHeight0, velocity |-> 0, falling |-> FALSE,
     reachedGround |-> FALSE]

\* initDrops()
InitDrops == [i \in 1..DropsNumDrops |-> NewDrop((i - 1) * DropsDt)]

\* Drop.update(currentTime).  The splash fields (splashing, splashTime) are read
\* by drawSplash only and are left out of the drop records.
DropUpdate(d, currentTime) ==
    IF currentTime < d.releaseTime
    THEN [d EXCEPT !.falling = FALSE, !.y = DropsHeight0, !.velocity = 0]
    ELSE IF d.reachedGround
    THEN d
    ELSE LET fallTime == currentTime - d.releaseTime
             y == DropsHeight0 - (DropsG * fallTime * fallTime) \div 2
         IN IF y <= 0
            THEN [d EXCEPT !.falling = TRUE, !.y = 0, !.velocity = DropsG * fallTime,
                           !.reachedGround = TRUE]
            ELSE [d EXCEPT !.falling = TRUE, !.y = y, !.velocity = DropsG * fallTime]

DropsUpdateAll(ds, t) == [i \in 1..DropsNumDrops |-> DropUpdate(ds[i], t)]

\* freezeAtCriticalMoment(), on the model fields
FreezeAtCriticalMoment(s) ==
    [s EXCEPT !.currentTime = DropsTotalTime,
              !.isFrozen = TRUE,
              !.drops = DropsUpdateAll(s.drops, DropsTotalTime),
              !.showSolution = TRUE,
              !.solutionRevealed = TRUE]

\* does updatePhysics(dt) reach the end of the run
DropsTerminal(s, dt) == s.currentTime + dt > DropsTotalTime + 500

\* updatePhysics(dt), on the model fields
UpdatePhysics(s, dt) ==
    LET s1 == [s EXCEPT !.currentTime = s.currentTime + dt]
        s2 == IF DropsTerminal(s, dt)
              THEN FreezeAtCriticalMoment([s1 EXCEPT !.currentTime = DropsTotalTime + 500])
              ELSE s1
    IN [s2 EXCEPT !.drops = DropsUpdateAll(s2.drops, s2.currentTime)]

\* solutionRevealed: the class 'revealed' of the solution panel; quizFeedback:
\* the class of the quiz feedback element
DropsSimInit ==
    [currentTime |-> 0, drops |-> InitDrops, isFrozen |-> FALSE, showSolution |-> FALSE,
     solutionRevealed |-> FALSE, quizFeedback |-> "none"]

\* resetSimulation()
DropsResetSim(s) ==
    [s EXCEPT !.isFrozen = FALSE, !.currentTime = 0, !.showSolution = FALSE, !.drops = InitDrops,
              !.solutionRevealed = FALSE, !.quizFeedback = "none"]

\* animate(timestamp)
DropsAnimate ==
    /\ page = "drops"
    /\ \E h \in frames, gap \in Gaps :
        LET fs == frames \ {h} IN
        IF ~isPlaying THEN GuardedReturn(h)
        ELSE LET simDt == (gap * DropsSpeed) \div DropsRealTimeScaleDen
                 term == DropsTerminal(sim, simDt)
                 nh == NewHandle(fs, animationFrame)
             IN /\ sim' = UpdatePhysics(sim, simDt)
                /\ isPlaying' = ~term
                /\ playDisabled' = IF term THEN FALSE ELSE playDisabled
                /\ pauseDisabled' = IF term THEN TRUE ELSE pauseDisabled
                /\ animationFrame' = nh
                /\ frames' = fs \cup {nh}
                /\ driver' = IF term THEN "Stopped" ELSE driver
                /\ calls' = FrameCalls(gap, term, TRUE)
                /\ UNCHANGED <<page, timers>>

\* play-btn click
DropsPlay ==
    /\ page = "drops"
    /\ ~playDisabled
    /\ Cardinality(frames) < MaxOutstanding
    /\ LET fs == IF sim.currentTime >= DropsTotalTime + 500
                 THEN CancelFrame(frames, animationFrame) ELSE frames
           s1 == IF sim.currentTime >= DropsTotalTime + 500 THEN DropsResetSim(sim) ELSE sim
           nh == NewHandle(fs, animationFrame)
       IN /\ sim' = [s1 EXCEPT !.isFrozen = FALSE]
          /\ isPlaying' = TRUE
          /\ animationFrame' = nh
          /\ frames' = fs \cup {nh}
          /\ playDisabled' = TRUE
          /\ pauseDisabled' = FALSE
          /\ driver' = "Playing"
          /\ calls' = [NoCalls("play") EXCEPT !.raf = TRUE]
          /\ UNCHANGED <<page, timers>>

\* pause-btn click
DropsPause ==
    /\ page = "drops"
    /\ ~pauseDisabled
    /\ isPlaying' = FALSE
    /\ frames' = CancelFrame(frames, animationFrame)
    /\ playDisabled' = FALSE
    /\ pauseDisabled' = TRUE
    /\ driver' = "Paused"
    /\ calls' = NoCalls("pause")
    /\ UNCHANGED <<page, animationFrame, sim, timers>>

\* reset-btn click: resetSimulation()
DropsReset ==
    /\ page = "drops"
    /\ isPlaying' = FALSE
    /\ sim' = DropsResetSim(sim)
    /\ frames' = CancelFrame(frames, animationFrame)
    /\ playDisabled' = FALSE
    /\ pauseDisabled' = TRUE
    /\ driver' = "Stopped"
    /\ calls' = [NoCalls("reset") EXCEPT !.render = TRUE]
    /\ UNCHANGED <<page, animationFrame, timers>>

\* critical-btn click: jump to the critical moment
DropsCritical ==
    /\ page = "drops"
    /\ isPlaying' = FALSE
    /\ frames' = CancelFrame(frames, animationFrame)
    /\ sim' = FreezeAtCriticalMoment([sim EXCEPT !.drops = InitDrops])
    /\ playDisabled' = FALSE
    /\ pauseDisabled' = TRUE
    /\ driver' = "Stopped"
    /\ calls' = [NoCalls("jump") EXCEPT !.stepper = TRUE, !.render = TRUE]
    /\ UNCHANGED <<page, animationFrame, timers>>

\* the quiz buttons' data-answer values
DropsQuizOptions == {"correct", "wrong"}

\* quiz-option click: the feedback is overwritten, a correct answer reveals the
\* solution panel
DropsQuizClick ==
    /\ page = "drops"
    /\ \E o \in DropsQuizOptions :
        sim' = [sim EXCEPT !.quizFeedback = o,
                           !.solutionRevealed = IF o = "correct" THEN TRUE ELSE @]
    /\ calls' = NoCalls("quiz")
    /\ UNCHANGED <<page, isPlaying, animationFrame, frames, playDisabled, pauseDisabled,
                   timers, driver>>

\* state after init() of the page
DriverInit ==
    /\ isPlaying = FALSE
    /\ animationFrame = 0
    /\ frames = {}
    /\ playDisabled = FALSE
    /\ pauseDisabled = TRUE
    /\ timers = [k \in TimerKinds |-> 0]
    /\ driver = "Stopped"
    /\ calls = NoCalls("init")

DropsInit ==
    /\ page = "drops"
    /\ DriverInit
    /\ sim = DropsSimInit

DropsNext ==
    \/ DropsAnimate \/ DropsPlay \/ DropsPause \/ DropsReset \/ DropsCritical
    \/ DropsQuizClick

SpecDrops == DropsInit /\ [][DropsNext]_vars

(***************************************************************************)
(* Brick-throw energy-wastage page (src/wastage-simulation/simulation.js). *)
(* Heights in um, velocities in mm/s, times in ms.                         *)
(***************************************************************************)

\* CONFIG.physics
WastageG == 10
WastageTargetHeight == 10
WastageVelocityAtTarget == 6
\* state.speedMultiplier at page load is 0.5: scaled deltas are halved
WastageSpeedDen == 2
\* trail cap in update()
WastageTrailCap == 80
\* delays of the two setTimeout calls in update()
WastageTargetDelay == 500
WastageMaxDelay == 800
\* length of the 'throwing' phase
WastageThrowTime == 300

\* Bound of the model: a stepper's clock keeps growing while a phase waits for
\* its timer and on every replay after landing; those steps are explored only
\* while the clock is at most this many ms past the end of the flight.
MaxOverrun == 200

\* the frame gaps explored on the pages that keep a trail or an unbounded
\* angle: a frame 100 ms after the last one, and one after a backgrounded tab
CoarseGaps == {100, 1000}

\* Math.sqrt on integers, rounded down
ISqrt(n) == CHOOSE r \in 0..20000 : r * r <= n /\ (r + 1) * (r + 1) > n

\* calculateEnergetics(): initialVelocity = sqrt(v^2 + 2 g h), in mm/s
WastageInitialVelocity ==
    ISqrt((WastageVelocityAtTarget * WastageVelocityAtTarget
           + 2 * WastageG * WastageTargetHeight) * 1000000)

\* calculateEnergetics(): maxHeight = targetHeight + v^2 / (2 g), in um
WastageMaxHeight ==
    WastageTargetHeight * 1000000
    + (WastageVelocityAtTarget * WastageVelocityAtTarget * 1000000) \div (2 * WastageG)

\* a push that never shifts the oldest entry out
TrailPushUncapped(trail, h, cap) == Append(trail, h)

\* this.trail.push({height}); if (this.trail.length > 80) this.trail.shift();
TrailPush(trail, h, cap) ==
    LET t == Append(trail, h) IN IF Len(t) > cap THEN Tail(t) ELSE t

\* BrickThrowSimulation.reset()
WastageSimInit ==
    [time |-> 0, height |-> 0, velocity |-> WastageInitialVelocity, phase |-> "throwing",
     reachedTarget |-> FALSE, reachedMax |-> FALSE, trail |-> <<>>]

\* the ascending / continuing branch of update()
WastageRise(s) ==
    LET v == WastageInitialVelocity - WastageG * s.time
        h == WastageInitialVelocity * s.time - (WastageG * s.time * s.time) \div 2
        s1 == [s EXCEPT !.velocity = v, !.height = h,
                        !.trail = TrailPush(s.trail, h, WastageTrailCap)]
        s2 == IF h >= WastageTargetHeight * 1000000 /\ ~s.reachedTarget
              THEN [s1 EXCEPT !.reachedTarget = TRUE, !.phase = "at_target"]
              ELSE s1
    IN IF v <= 0
       THEN [s2 EXCEPT !.phase = "at_max", !.reachedMax = TRUE,
                       !.height = WastageMaxHeight, !.velocity = 0]
       ELSE s2

\* the descending branch of update()
WastageFall(s) ==
    LET v == -(WastageG * s.time)
        h == WastageMaxHeight - (WastageG * s.time * s.time) \div 2
        s1 == [s EXCEPT !.velocity = v, !.height = h,
                        !.trail = TrailPush(s.trail, h, WastageTrailCap)]
    IN IF h <= 0 THEN [s1 EXCEPT !.height = 0, !.phase = "landed"] ELSE s1

\* BrickThrowSimulation.update(deltaTime, speedMultiplier), on the model fields
\* (currentKE, currentPE and currentTotal are functions of velocity and height)
WastageUpdate(s, deltaTime) ==
    LET scaledDelta == deltaTime \div WastageSpeedDen
        s0 == [s EXCEPT !.time = s.time + scaledDelta]
        s1 == IF s0.phase = "throwing" /\ s0.time > WastageThrowTime
              THEN [s0 EXCEPT !.phase = "ascending", !.time = 0]
              ELSE s0
    IN IF s1.phase \in {"ascending", "continuing"} THEN WastageRise(s1)
       ELSE IF s1.phase = "descending" THEN WastageFall(s1)
       ELSE s1

\* the timers update() schedules: one per call made in a waiting phase
WastageTimers(s, deltaTime) ==
    LET scaledDelta == deltaTime \div WastageSpeedDen
        throwEnds == s.phase = "throwing" /\ s.time + scaledDelta > WastageThrowTime
    IN IF throwEnds THEN {}
       ELSE IF s.phase = "at_target" THEN {"at_target"}
       ELSE IF s.phase = "at_max" THEN {"at_max"}
       ELSE {}

\* Math.min((timestamp - state.lastTimestamp) / 1000, 0.1)
ClampDelta(gap) == IF gap < 100 THEN gap ELSE 100

\* The bound on the brick's clock.  While a phase waits for its timer every
\* frame advances the clock, so a frame of a waiting phase is explored only
\* while the clock stays within the bound (the timer is then the only step
\* left); the bound of 'at_target' leaves room for the frames that schedule
\* the timer of 'at_max'.  Frames of the other phases are always explored.
WastageWithinBound(s, s1) ==
    /\ s.phase = "at_target" => s1.time <= WastageInitialVelocity \div WastageG
    /\ s.phase = "at_max" => s1.time <= WastageInitialVelocity \div WastageG + MaxOverrun

\* animate(timestamp)
WastageAnimate ==
    /\ page = "wastage"
    /\ \E h \in frames, gap \in CoarseGaps :
        LET fs == frames \ {h} IN
        IF ~isPlaying THEN GuardedReturn(h)
        ELSE LET dt == ClampDelta(gap)
                 s1 == WastageUpdate(sim, dt)
                 completed == s1.phase = "landed"
                 nh == NewHandle(fs, animationFrame)
             IN /\ WastageWithinBound(sim, s1)
                /\ sim' = s1
                /\ timers' = AddTimers(timers, WastageTimers(sim, dt))
                /\ isPlaying' = ~completed
                /\ playDisabled' = IF completed THEN FALSE ELSE playDisabled
                /\ pauseDisabled' = IF completed THEN TRUE ELSE pauseDisabled
                /\ animationFrame' = IF completed THEN animationFrame ELSE nh
                /\ frames' = IF completed THEN fs ELSE fs \cup {nh}
                /\ driver' = IF completed THEN "Stopped" ELSE driver
                /\ calls' = FrameCalls(dt, completed, ~completed)
                /\ page' = page

\* the callback of setTimeout(..., 500) scheduled in phase 'at_target'
WastageTargetTimer ==
    /\ page = "wastage"
    /\ timers["at_target"] > 0
    /\ timers' = TakeTimer(timers, "at_target")
    /\ sim' = IF sim.phase = "at_target" THEN [sim EXCEPT !.phase = "continuing"] ELSE sim
    /\ calls' = NoCalls("timer")
    /\ UNCHANGED <<page, isPlaying, animationFrame, frames, playDisabled, pauseDisabled, driver>>

\* the timer callback of 'at_max' with its body lost: the phase is not changed
WastageMaxTimerLost ==
    /\ page = "wastage"
    /\ timers["at_max"] > 0
    /\ timers' = TakeTimer(timers, "at_max")
    /\ calls' = NoCalls("timer")
    /\ UNCHANGED <<page, isPlaying, animationFrame, frames, playDisabled, pauseDisabled,
                   driver, sim>>

\* the callback of setTimeout(..., 800) scheduled in phase 'at_max'
WastageMaxTimer ==
    /\ page = "wastage"
    /\ timers["at_max"] > 0
    /\ timers' = TakeTimer(timers, "at_max")
    /\ sim' = IF sim.phase = "at_max"
              THEN [sim EXCEPT !.phase = "descending", !.time = 0] ELSE sim
    /\ calls' = NoCalls("timer")
    /\ UNCHANGED <<page, isPlaying, animationFrame, frames, playDisabled, pauseDisabled, driver>>

\* play-btn click
PlayClick ==
    /\ ~playDisabled
    /\ Cardinality(frames) < MaxOutstanding
    /\ LET nh == NewHandle(frames, animationFrame)
       IN /\ isPlaying' = TRUE
          /\ animationFrame' = nh
          /\ frames' = frames \cup {nh}
          /\ playDisabled' = TRUE
          /\ pauseDisabled' = FALSE
          /\ driver' = "Playing"
          /\ calls' = [NoCalls("play") EXCEPT !.raf = TRUE]
          /\ UNCHANGED <<page, sim, timers>>

\* pause-btn click
PauseClick ==
    /\ ~pauseDisabled
    /\ isPlaying' = FALSE
    /\ frames' = CancelFrame(frames, animationFrame)
    /\ playDisabled' = FALSE
    /\ pauseDisabled' = TRUE
    /\ driver' = "Paused"
    /\ calls' = NoCalls("pause")
    /\ UNCHANGED <<page, animationFrame, sim, timers>>

\* resetSimulation(), with the page's model reset to s0
ResetClick(s0) ==
    /\ isPlaying' = FALSE
    /\ frames' = CancelFrame(frames, animationFrame)
    /\ sim' = s0
    /\ playDisabled' = FALSE
    /\ pauseDisabled' = TRUE
    /\ driver' = "Stopped"
    /\ calls' = [NoCalls("reset") EXCEPT !.render = TRUE]
    /\ UNCHANGED <<page, animationFrame, timers>>

\* play-btn click; a replay after landing is explored while the clock, which
\* every replay advances, is within the bound
WastagePlay ==
    /\ page = "wastage"
    /\ sim.phase = "landed" => sim.time <= WastageInitialVelocity \div WastageG + MaxOverrun
    /\ PlayClick
WastagePause == page = "wastage" /\ PauseClick
WastageReset == page = "wastage" /\ ResetClick(WastageSimInit)

WastageInit ==
    /\ page = "wastage"
    /\ DriverInit
    /\ sim = WastageSimInit

WastageNext ==
    \/ WastageAnimate \/ WastageTargetTimer \/ WastageMaxTimer
    \/ WastagePlay \/ WastagePause \/ WastageReset

SpecWastage == WastageInit /\ [][WastageNext]_vars

\* The browser runs every requested frame and every pending timer callback:
\* weak fairness on the frame callback and on the two timer callbacks.
SpecWastageLive ==
    /\ SpecWastage
    /\ WF_vars(WastageAnimate)
    /\ WF_vars(WastageTargetTimer)
    /\ WF_vars(WastageMaxTimer)

(***************************************************************************)
(* Free-fall storey page (src/freefall-simulation/simulation.js).          *)
(* Distances in um, velocities in mm/s, times in ms.                       *)
(***************************************************************************)

\* CONFIG.physics
FreefallG == 10
FreefallTotalTime == 4000
FreefallStoreyHeight == 5
\* state.speed at page load
FreefallSpeed == 1
\* the time the 'jump to last second' button sets
FreefallLastSecond == 3000

Min(a, b) == IF a < b THEN a ELSE b
Max(a, b) == IF a > b THEN a ELSE b

\* FallingBall.reset()
BallReset == [y |-> 0, velocity |-> 0, currentFloor |-> 16, storeysFallen |-> 0, finished |-> FALSE]

\* FallingBall.update(currentTime)
BallUpdate(b, currentTime) ==
    IF b.finished THEN b
    ELSE LET fin == currentTime >= FreefallTotalTime
             t == IF fin THEN FreefallTotalTime ELSE currentTime
             y == (FreefallG * t * t) \div 2
             storeys == Min(16, y \div (FreefallStoreyHeight * 1000000))
         IN [y |-> y, velocity |-> FreefallG * t, currentFloor |-> Max(0, 16 - storeys),
             storeysFallen |-> storeys, finished |-> fin]

\* Bound of the model: the user waits without a frame running only while the
\* wall clock is at most this many ms past state.lastTimestamp.
MaxIdle == 2000

\* state at page load.  sinceLastTimestamp is the wall-clock time minus
\* state.lastTimestamp.  Two records of the environment, not fields of the
\* page: wall is the wall-clock time that passed just before the last frame or
\* wait, and pausedFor is, from a play click to the end of the first frame
\* after it, the time the wall clock was past state.lastTimestamp when play
\* was clicked (-1 at any other time)
FreefallSimInit ==
    [currentTime |-> 0, ball |-> BallReset, completedIntervals |-> {},
     sinceLastTimestamp |-> 0, wall |-> 0, pausedFor |-> -1]

\* resetSimulation(): state.lastTimestamp is not assigned
FreefallResetSim(s) ==
    [FreefallSimInit EXCEPT !.sinceLastTimestamp = s.sinceLastTimestamp]

\* a play click that leaves state.lastTimestamp as the last frame set it
PlayTimestampStale(s) == [s EXCEPT !.wall = 0, !.pausedFor = s.sinceLastTimestamp]

\* state.lastTimestamp = performance.now()
PlayTimestamp(s) ==
    [s EXCEPT !.sinceLastTimestamp = 0, !.wall = 0, !.pausedFor = s.sinceLastTimestamp]

\* animate(timestamp)
FreefallAnimate ==
    /\ page = "freefall"
    /\ \E h \in frames, gap \in Gaps :
        LET fs == frames \ {h} IN
        IF ~isPlaying THEN GuardedReturn(h)
        ELSE LET \* timestamp - state.lastTimestamp
                 deltaTime == sim.sinceLastTimestamp + gap
                 t1 == sim.currentTime + deltaTime * FreefallSpeed
                 term == t1 >= FreefallTotalTime
                 t2 == IF term THEN FreefallTotalTime ELSE t1
                 currentInterval == t2 \div 1000
                 ci == IF currentInterval > 0 THEN sim.completedIntervals \cup {currentInterval}
                       ELSE sim.completedIntervals
                 nh == NewHandle(fs, animationFrame)
             IN /\ sim' = [currentTime |-> t2, ball |-> BallUpdate(sim.ball, t2),
                           completedIntervals |-> ci,
                           sinceLastTimestamp |-> 0, wall |-> gap,
                           pausedFor |-> IF calls.op = "play" THEN sim.pausedFor ELSE -1]
                /\ isPlaying' = ~term
                /\ playDisabled' = IF term THEN FALSE ELSE playDisabled
                /\ pauseDisabled' = IF term THEN TRUE ELSE pauseDisabled
                /\ animationFrame' = nh
                /\ frames' = fs \cup {nh}
                /\ driver' = IF term THEN "Stopped" ELSE driver
                /\ calls' = FrameCalls(deltaTime, term, TRUE)
                /\ UNCHANGED <<page, timers>>

\* play-btn click
FreefallPlay ==
    /\ page = "freefall"
    /\ ~playDisabled
    /\ Cardinality(frames) < MaxOutstanding
    /\ LET over == sim.currentTime >= FreefallTotalTime
           fs == IF over THEN CancelFrame(frames, animationFrame) ELSE frames
           nh == NewHandle(fs, animationFrame)
       IN /\ sim' = PlayTimestamp(IF over THEN FreefallResetSim(sim) ELSE sim)
          /\ isPlaying' = TRUE
          /\ animationFrame' = nh
          /\ frames' = fs \cup {nh}
          /\ playDisabled' = TRUE
          /\ pauseDisabled' = FALSE
          /\ driver' = "Playing"
          /\ calls' = [NoCalls("play") EXCEPT !.raf = TRUE, !.render = over]
          /\ UNCHANGED <<page, timers>>

\* last-second-btn click
FreefallLastSecondClick ==
    /\ page = "freefall"
    /\ isPlaying' = FALSE
    /\ frames' = CancelFrame(frames, animationFrame)
    /\ sim' = [sim EXCEPT !.currentTime = FreefallLastSecond,
                          !.ball = BallUpdate(sim.ball, FreefallLastSecond),
                          !.completedIntervals = sim.completedIntervals \cup {1, 2, 3},
                          !.wall = 0, !.pausedFor = -1]
    /\ playDisabled' = FALSE
    /\ pauseDisabled' = TRUE
    /\ driver' = "Stopped"
    /\ calls' = [NoCalls("jump") EXCEPT !.stepper = TRUE, !.render = TRUE]
    /\ UNCHANGED <<page, animationFrame, timers>>

FreefallPause == page = "freefall" /\ PauseClick
FreefallReset == page = "freefall" /\ ResetClick(FreefallResetSim(sim))

\* the user waits while no frame is due: the wall clock moves on and no
\* handler runs
FreefallIdle ==
    /\ page = "freefall"
    /\ ~isPlaying
    /\ sim.sinceLastTimestamp < MaxIdle
    /\ \E gap \in CoarseGaps :
        sim' = [sim EXCEPT !.sinceLastTimestamp = @ + gap, !.wall = gap, !.pausedFor = -1]
    /\ calls' = NoCalls("idle")
    /\ UNCHANGED <<page, isPlaying, animationFrame, frames, playDisabled, pauseDisabled,
                   timers, driver>>

FreefallInit ==
    /\ page = "freefall"
    /\ DriverInit
    /\ sim = FreefallSimInit

FreefallNext ==
    \/ FreefallAnimate \/ FreefallPlay \/ FreefallPause \/ FreefallReset
    \/ FreefallLastSecondClick \/ FreefallIdle

SpecFreefall == FreefallInit /\ [][FreefallNext]_vars

(***************************************************************************)
(* Air-resistance page (src/unnamed/part_000, AirResistanceSimulation).    *)
(* Heights in um, times in ms.                                             *)
(***************************************************************************)

\* CONFIG.physics
AirG == 10
AirU == 20
AirVReturn == 18
\* calculateParams(): the approximate times of the real motion
AirRealTimeUp == 1900
AirRealTotalTime == 3800

\* calculateParams()
AirIdealMaxHeight == (AirU * AirU * 1000000) \div (2 * AirG)
AirIdealTimeUp == (AirU * 1000) \div AirG
AirIdealTotalTime == 2 * AirIdealTimeUp
AirEnergyLost == (AirU * AirU - AirVReturn * AirVReturn) \div 2
AirRealMaxHeight == ((AirU * AirU * 1000000) \div 2 - (AirEnergyLost * 1000000) \div 2) \div AirG

\* the frame gaps explored on the clamped pages that keep no trail
SmallGaps == {40, 100, 1000}

AirSimInit == [time |-> 0, idealHeight |-> 0, realHeight |-> 0]

\* AirResistanceSimulation.update(deltaTime), on the model fields
AirUpdate(s, deltaTime) ==
    LET t == s.time + deltaTime
        ideal == IF t <= AirIdealTimeUp
                 THEN AirU * 1000 * t - (AirG * t * t) \div 2
                 ELSE IF t <= AirIdealTotalTime
                 THEN AirIdealMaxHeight
                      - (AirG * (t - AirIdealTimeUp) * (t - AirIdealTimeUp)) \div 2
                 ELSE 0
        \* effectiveGUp = g * 1.1, effectiveGDown = g * 0.9
        real == IF t <= AirRealTimeUp
                THEN AirU * 1000 * t - (AirG * 11 * t * t) \div 20
                ELSE IF t <= AirRealTotalTime
                THEN AirRealMaxHeight
                     - (AirG * 9 * (t - AirRealTimeUp) * (t - AirRealTimeUp)) \div 20
                ELSE 0
    IN [time |-> t, idealHeight |-> Max(0, ideal), realHeight |-> Max(0, real)]

\* the value update() returns
AirCompleted(s) == s.time >= Max(AirIdealTotalTime, AirRealTotalTime)

\* animate(timestamp) of a page whose stepper returns `completed`:
\* s1 is the model after update(deltaTime)
StdAnimate(h, dt, s1, completed) ==
    LET fs == frames \ {h}
        nh == NewHandle(fs, animationFrame)
    IN /\ sim' = s1
       /\ isPlaying' = ~completed
       /\ playDisabled' = IF completed THEN FALSE ELSE playDisabled
       /\ pauseDisabled' = IF completed THEN TRUE ELSE pauseDisabled
       /\ animationFrame' = IF completed THEN animationFrame ELSE nh
       /\ frames' = IF completed THEN fs ELSE fs \cup {nh}
       /\ driver' = IF completed THEN "Stopped" ELSE driver
       /\ calls' = FrameCalls(dt, completed, ~completed)
       /\ UNCHANGED <<page, timers>>

\* animate(timestamp)
AirAnimate ==
    /\ page = "air"
    /\ \E h \in frames, gap \in SmallGaps :
        IF ~isPlaying THEN GuardedReturn(h)
        ELSE LET s1 == AirUpdate(sim, ClampDelta(gap))
             IN /\ s1.time <= AirIdealTotalTime + MaxOverrun
                /\ StdAnimate(h, ClampDelta(gap), s1, AirCompleted(s1))

AirPlay == page = "air" /\ PlayClick
AirPause == page = "air" /\ PauseClick
AirReset == page = "air" /\ ResetClick(AirSimInit)

AirInit ==
    /\ page = "air"
    /\ DriverInit
    /\ sim = AirSimInit

AirNext == AirAnimate \/ AirPlay \/ AirPause \/ AirReset

SpecAir == AirInit /\ [][AirNext]_vars

(***************************************************************************)
(* Coriolis train page (src/unnamed/part_003, Train).                      *)
(* Angles in milliradians, speeds in m/s, times in ms.                     *)
(***************************************************************************)

\* CONSTANTS.R_earth in km, CONSTANTS.v_earth_equator
TrainREarthKm == 6371
TrainVEarth == 465
\* state.trainSpeed at page load, and the value resetSimulation() writes
TrainDefaultSpeed == 30
\* Math.PI in milliradians
PiMilli == 3142
TwoPiMilli == 2 * PiMilli

\* values the speed slider can be dragged to
TrainSliderSpeeds == {30, 50}

\* Bound of the model: frames are explored while the accumulated Earth
\* rotation (milliradians) is at most this.
MaxEarthRotation == 4000

\* new Train(name, direction, color): the speed is read from state.trainSpeed
NewTrain(direction, trainSpeed) ==
    [direction |-> direction,
     position |-> IF direction > 0 THEN 0 ELSE PiMilli,
     speed |-> trainSpeed,
     v_effective |-> TrainVEarth + trainSpeed * direction]

\* initTrains()
InitTrains(trainSpeed) == [A |-> NewTrain(-1, trainSpeed), B |-> NewTrain(1, trainSpeed)]

\* Train.setSpeed(newSpeed): calculateForces() recomputes v_effective
TrainSetSpeed(tr, newSpeed) ==
    [tr EXCEPT !.speed = newSpeed, !.v_effective = TrainVEarth + newSpeed * tr.direction]

\* Train.update(deltaTime, animationSpeed) with animationSpeed = 1
TrainUpdate(tr, deltaTime) ==
    LET step == (tr.speed * deltaTime * 10) \div TrainREarthKm
        p0 == tr.position + step * tr.direction
        p1 == IF p0 > TwoPiMilli THEN p0 - TwoPiMilli ELSE p0
        p2 == IF p1 < 0 THEN p1 + TwoPiMilli ELSE p1
    IN [tr EXCEPT !.position = p2]

\* state.earthRotation += CONSTANTS.omega_earth * deltaTime * 50000  (3.646 rad/s)
EarthRotationStep(deltaTime) == (deltaTime * 3646) \div 1000

TrainSimInit ==
    [trainSpeed |-> TrainDefaultSpeed, trains |-> InitTrains(TrainDefaultSpeed),
     earthRotation |-> 0, showExplanation |-> FALSE]

\* resetSimulation(): initTrains() runs before state.trainSpeed is set back
TrainResetSim(s) ==
    [trainSpeed |-> TrainDefaultSpeed, trains |-> InitTrains(s.trainSpeed),
     earthRotation |-> 0, showExplanation |-> FALSE]

\* animate(timestamp)
TrainAnimate ==
    /\ page = "train"
    /\ \E h \in frames, gap \in CoarseGaps :
        IF ~isPlaying THEN GuardedReturn(h)
        ELSE LET fs == frames \ {h}
                 nh == NewHandle(fs, animationFrame)
                 er == sim.earthRotation + EarthRotationStep(gap)
             IN /\ er <= MaxEarthRotation
                /\ sim' = [sim EXCEPT !.earthRotation = er,
                                      !.trains = [A |-> TrainUpdate(sim.trains.A, gap),
                                                  B |-> TrainUpdate(sim.trains.B, gap)]]
                /\ animationFrame' = nh
                /\ frames' = fs \cup {nh}
                /\ calls' = FrameCalls(gap, FALSE, TRUE)
                /\ UNCHANGED <<page, isPlaying, playDisabled, pauseDisabled, timers, driver>>

\* speed-slider input
TrainSlider ==
    /\ page = "train"
    /\ \E speed \in TrainSliderSpeeds :
        sim' = [sim EXCEPT !.trainSpeed = speed,
                           !.trains = [A |-> TrainSetSpeed(sim.trains.A, speed),
                                       B |-> TrainSetSpeed(sim.trains.B, speed)]]
    /\ calls' = [NoCalls("slider") EXCEPT !.render = TRUE]
    /\ UNCHANGED <<page, isPlaying, animationFrame, frames, playDisabled, pauseDisabled,
                   timers, driver>>

\* analyze-btn click
TrainAnalyze ==
    /\ page = "train"
    /\ sim' = [sim EXCEPT !.showExplanation = ~sim.showExplanation]
    /\ calls' = NoCalls("analyze")
    /\ UNCHANGED <<page, isPlaying, animationFrame, frames, playDisabled, pauseDisabled,
                   timers, driver>>

TrainPlay == page = "train" /\ PlayClick
TrainPause == page = "train" /\ PauseClick
TrainReset == page = "train" /\ ResetClick(TrainResetSim(sim))

TrainInit ==
    /\ page = "train"
    /\ DriverInit
    /\ sim = TrainSimInit

TrainNext ==
    \/ TrainAnimate \/ TrainSlider \/ TrainAnalyze
    \/ TrainPlay \/ TrainPause \/ TrainReset

SpecTrain == TrainInit /\ [][TrainNext]_vars

(***************************************************************************)
(* Gravity geometric-series page (src/gravity-simulation/simulation.js).   *)
(* Opacity and force progress in thousandths; forces in units of           *)
(* G*M*m / 4^(numMasses-1), so that every force is an integer.             *)
(***************************************************************************)

\* CONFIG.physics.numMasses
GravityNumMasses == 10
\* state.speed, state.M, state.m at page load
GravitySpeed == 1
GravityM == 1
GravityMSmall == 1

RECURSIVE Pow(_, _)
Pow(b, e) == IF e = 0 THEN 1 ELSE b * Pow(b, e - 1)

\* new PointMass(x, 0, state.m, i): x = 2^i is implied by the position i+1
NewPointMass == [opacity |-> 0, showForce |-> FALSE, forceProgress |-> 0]

\* the speed buttons' data-speed values and the mass sliders' values explored
GravitySpeeds == {1, 2}
GravityMasses == {1, 2}

\* (CONFIG.physics.G * state.M * state.m) / (x * x) with x = 2^(i-1), for the
\* first n masses
GravityForces(n, M, m) == [i \in 1..n |-> M * m * Pow(4, GravityNumMasses - i)]

\* initPhysics(), on the model fields
InitPhysics(s) ==
    [s EXCEPT !.pointMasses = [i \in 1..GravityNumMasses |-> NewPointMass],
              !.forces = GravityForces(GravityNumMasses, s.M, s.m),
              !.runningTotal = 0,
              !.currentForceIndex = 0]

GravitySimInit ==
    [currentState |-> "initial", currentForceIndex |-> 0, runningTotal |-> 0,
     pointMasses |-> <<>>, forces |-> <<>>,
     speed |-> GravitySpeed, M |-> GravityM, m |-> GravityMSmall]

\* animateShowMasses(delta): every mass fades in at 0.003 * (index + 1) per ms
AnimateShowMasses(s, delta) ==
    [s EXCEPT !.pointMasses =
        [i \in 1..Len(s.pointMasses) |->
            IF s.pointMasses[i].opacity < 1000
            THEN [s.pointMasses[i] EXCEPT !.opacity = Min(@ + delta * 3 * i, 1000)]
            ELSE s.pointMasses[i]]]

\* animateShowMasses(delta): allVisible, which schedules the setTimeout
AllVisible(s) == \A i \in 1..Len(s.pointMasses) : s.pointMasses[i].opacity >= 1000

\* animateVector(delta): the vector grows at 0.002 per ms
AnimateVector(s, delta) ==
    IF s.currentForceIndex >= Len(s.pointMasses)
    THEN [s EXCEPT !.currentState = "complete"]
    ELSE LET i == s.currentForceIndex + 1
             fp == s.pointMasses[i].forceProgress + delta * 2
         IN IF fp >= 1000
            THEN [s EXCEPT !.pointMasses[i].showForce = TRUE,
                           !.pointMasses[i].forceProgress = 1000,
                           !.runningTotal = @ + s.forces[i],
                           !.currentForceIndex = @ + 1]
            ELSE [s EXCEPT !.pointMasses[i].showForce = TRUE,
                           !.pointMasses[i].forceProgress = fp]

\* animate(timestamp)
GravityAnimate ==
    /\ page = "gravity"
    /\ \E h \in frames, gap \in CoarseGaps :
        IF ~isPlaying THEN GuardedReturn(h)
        ELSE LET fs == frames \ {h}
                 nh == NewHandle(fs, animationFrame)
                 adjustedDelta == gap * sim.speed
                 showing == sim.currentState = "showing_masses"
             IN /\ sim' = IF showing THEN AnimateShowMasses(sim, adjustedDelta)
                          ELSE IF sim.currentState = "animating_vector"
                          THEN AnimateVector(sim, adjustedDelta)
                          ELSE sim
                /\ timers' = IF showing /\ AllVisible(sim)
                             THEN AddTimers(timers, {"show_masses"}) ELSE timers
                /\ animationFrame' = nh
                /\ frames' = fs \cup {nh}
                /\ calls' = FrameCalls(gap, FALSE, TRUE)
                /\ UNCHANGED <<page, isPlaying, playDisabled, pauseDisabled, driver>>

\* the callback of setTimeout(..., 500 / state.speed) in animateShowMasses
GravityShowMassesTimer ==
    /\ page = "gravity"
    /\ timers["show_masses"] > 0
    /\ timers' = TakeTimer(timers, "show_masses")
    /\ sim' = [sim EXCEPT !.currentState = "animating_vector", !.currentForceIndex = 0]
    /\ calls' = NoCalls("timer")
    /\ UNCHANGED <<page, isPlaying, animationFrame, frames, playDisabled, pauseDisabled, driver>>

\* play-btn click
GravityPlay ==
    /\ page = "gravity"
    /\ ~playDisabled
    /\ Cardinality(frames) < MaxOutstanding
    /\ LET nh == NewHandle(frames, animationFrame)
       IN /\ sim' = IF sim.currentState = "initial"
                    THEN [InitPhysics(sim) EXCEPT !.currentState = "showing_masses"]
                    ELSE sim
          /\ isPlaying' = TRUE
          /\ animationFrame' = nh
          /\ frames' = frames \cup {nh}
          /\ playDisabled' = TRUE
          /\ pauseDisabled' = FALSE
          /\ driver' = "Playing"
          /\ calls' = [NoCalls("play") EXCEPT !.raf = TRUE]
          /\ UNCHANGED <<page, timers>>

\* reset-btn click: state.forces is left as it is
GravityResetSim(s) ==
    [s EXCEPT !.currentState = "initial", !.currentForceIndex = 0, !.runningTotal = 0,
              !.pointMasses = <<>>]

\* step-btn click
GravityStep ==
    /\ page = "gravity"
    /\ LET s1 == IF sim.currentState = "initial"
                 THEN [InitPhysics(sim) EXCEPT
                          !.pointMasses = [i \in 1..GravityNumMasses |->
                                              [NewPointMass EXCEPT !.opacity = 1000]],
                          !.currentState = "animating_vector"]
                 ELSE sim
           i == s1.currentForceIndex + 1
           s2 == IF s1.currentState = "animating_vector"
                    /\ s1.currentForceIndex < Len(s1.pointMasses)
                 THEN [s1 EXCEPT !.pointMasses[i].showForce = TRUE,
                                 !.pointMasses[i].forceProgress = 1000,
                                 !.runningTotal = @ + s1.forces[i],
                                 !.currentForceIndex = @ + 1,
                                 !.currentState = IF i < Len(s1.pointMasses)
                                                  THEN "animating_vector" ELSE "complete"]
                 ELSE s1
       IN sim' = s2
    /\ calls' = [NoCalls("step") EXCEPT !.render = TRUE]
    /\ UNCHANGED <<page, isPlaying, animationFrame, frames, playDisabled, pauseDisabled,
                   timers, driver>>

\* speed-btn click
GravitySpeedClick ==
    /\ page = "gravity"
    /\ \E v \in GravitySpeeds : sim' = [sim EXCEPT !.speed = v]
    /\ calls' = NoCalls("speed")
    /\ UNCHANGED <<page, isPlaying, animationFrame, frames, playDisabled, pauseDisabled,
                   timers, driver>>

\* the mass sliders' input handlers, on the model with M and m already set:
\* outside INITIAL the forces are recalculated, one per point mass
GravityRecalculate(s) ==
    IF s.currentState # "initial"
    THEN [s EXCEPT !.forces = GravityForces(Len(s.pointMasses), s.M, s.m)]
    ELSE s

\* mass-M and mass-m input
GravityMassSlider ==
    /\ page = "gravity"
    /\ \E v \in GravityMasses :
        \/ sim' = GravityRecalculate([sim EXCEPT !.M = v])
        \/ sim' = GravityRecalculate([sim EXCEPT !.m = v])
    /\ calls' = NoCalls("slider")
    /\ UNCHANGED <<page, isPlaying, animationFrame, frames, playDisabled, pauseDisabled,
                   timers, driver>>

GravityPause == page = "gravity" /\ PauseClick
GravityReset == page = "gravity" /\ ResetClick(GravityResetSim(sim))

GravityInit ==
    /\ page = "gravity"
    /\ DriverInit
    /\ sim = GravitySimInit

GravityNext ==
    \/ GravityAnimate \/ GravityShowMassesTimer \/ GravityPlay \/ GravityPause
    \/ GravityReset \/ GravityStep \/ GravitySpeedClick

SpecGravity == GravityInit /\ [][GravityNext]_vars

\* A run that is neither paused nor reset: Play, the frames and timers it
\* causes, Step clicks and speed changes.
GravityRunNext ==
    \/ GravityPlay \/ GravityAnimate \/ GravityShowMassesTimer
    \/ GravityStep \/ GravitySpeedClick

\* The browser runs every requested frame and every pending timer callback:
\* weak fairness on the frame callback and on the timer callback.
SpecGravityRun ==
    /\ GravityInit /\ [][GravityRunNext]_vars
    /\ WF_vars(GravityAnimate)
    /\ WF_vars(GravityShowMassesTimer)

\* the page driven by its click-only handlers: Step, Reset and the mass sliders
GravitySliderNext ==
    \/ GravityStep \/ GravityReset \/ GravityMassSlider

SpecGravitySliders == GravityInit /\ [][GravitySliderNext]_vars

(***************************************************************************)
(* Maximum-height page (src/satmass-simulation/simulation.js,              *)
(* MaxHeightSimulation).  Times in ms.                                     *)
(***************************************************************************)

\* 2 * timeToMax = 2 * sqrt(2 * g * Hmax) / g = 2 * sqrt(2) s, rounded down to
\* ms: for a whole number t of ms the height u*t - g*t^2/2 is negative exactly
\* when t exceeds it
MaxHeightFlightTime == ISqrt(8 * 1000000)

\* the slow-motion factor of animate() is 0.5
MaxHeightSlowDen == 2

\* lastTimestampZero: play() has set this.lastTimestamp = 0 and no frame has
\* run since
MaxHeightSimInit == [currentTime |-> 0, lastTimestampZero |-> TRUE]

\* animate(timestamp)
MaxHeightAnimate ==
    /\ page = "maxheight"
    /\ \E h \in frames, gap \in Gaps :
        IF ~isPlaying THEN GuardedReturn(h)
        ELSE LET fs == frames \ {h}
                 nh == NewHandle(fs, animationFrame)
                 \* if (!this.lastTimestamp) this.lastTimestamp = timestamp;
                 deltaTime == IF sim.lastTimestampZero THEN 0 ELSE gap
                 t == sim.currentTime + deltaTime \div MaxHeightSlowDen
                 landed == t > MaxHeightFlightTime
             IN /\ sim' = [currentTime |-> t, lastTimestampZero |-> FALSE]
                \* this.pause() cancels this.animationId
                /\ isPlaying' = ~landed
                /\ animationFrame' = IF landed THEN animationFrame ELSE nh
                /\ frames' = IF landed THEN CancelFrame(fs, animationFrame) ELSE fs \cup {nh}
                /\ driver' = IF landed THEN "Stopped" ELSE driver
                /\ calls' = FrameCalls(deltaTime, landed, ~landed)
                /\ UNCHANGED <<page, playDisabled, pauseDisabled, timers>>

\* play-btn click: toggleAnimation(), i.e. pause() or play()
MaxHeightToggle ==
    /\ page = "maxheight"
    /\ IF isPlaying
       THEN /\ isPlaying' = FALSE
            /\ frames' = CancelFrame(frames, animationFrame)
            /\ driver' = "Paused"
            /\ calls' = NoCalls("pause")
            /\ UNCHANGED <<page, animationFrame, playDisabled, pauseDisabled, sim, timers>>
       ELSE LET nh == NewHandle(frames, animationFrame)
            IN /\ Cardinality(frames) < MaxOutstanding
               /\ sim' = [currentTime |-> IF sim.currentTime > MaxHeightFlightTime
                                          THEN 0 ELSE sim.currentTime,
                          lastTimestampZero |-> TRUE]
               /\ isPlaying' = TRUE
               /\ animationFrame' = nh
               /\ frames' = frames \cup {nh}
               /\ driver' = "Playing"
               /\ calls' = [NoCalls("play") EXCEPT !.raf = TRUE]
               /\ UNCHANGED <<page, playDisabled, pauseDisabled, timers>>

\* reset-btn click: reset() calls pause() and sets currentTime = 0
MaxHeightReset ==
    /\ page = "maxheight"
    /\ isPlaying' = FALSE
    /\ frames' = CancelFrame(frames, animationFrame)
    /\ sim' = [sim EXCEPT !.currentTime = 0]
    /\ driver' = "Stopped"
    /\ calls' = [NoCalls("reset") EXCEPT !.render = TRUE]
    /\ UNCHANGED <<page, animationFrame, playDisabled, pauseDisabled, timers>>

MaxHeightInit ==
    /\ page = "maxheight"
    /\ DriverInit
    /\ sim = MaxHeightSimInit

MaxHeightNext == MaxHeightAnimate \/ MaxHeightToggle \/ MaxHeightReset

SpecMaxHeight == MaxHeightInit /\ [][MaxHeightNext]_vars

(***************************************************************************)
(* Retrograde-satellite page (src/unnamed/part_004).                       *)
(* Times in milli-hours (one real second is one simulated hour at the      *)
(* page-load speed), angles in units of pi/1200 rad.                       *)
(***************************************************************************)

\* CONFIG.physics.earthPeriod (hours)
SatelliteEarthPeriod == 24
\* state.speedMultiplier at page load
SatelliteSpeedMultiplier == 2
\* pi, in angle units
SatellitePi == 1200
\* omegaEarth = 2 pi / earthPeriod, omegaSatellite = Math.PI / 4: angle units per hour
SatelliteOmegaEarth == (2 * SatellitePi) \div SatelliteEarthPeriod
SatelliteOmega == SatellitePi \div 4
\* the hours the fast-forward button skips
SatelliteSkipHours == 6

\* Bound of the model: the stepper is called only while its clock stays at
\* most this many milli-hours.
MaxSatelliteTime == 7000

Abs(x) == IF x < 0 THEN -x ELSE x

\* new SatelliteSimulation(): wasVisible is not assigned by the constructor
\* (undefined, which `!this.wasVisible` reads as false); lastSighting -1 is null
SatelliteSimInit ==
    [time |-> 0, earthAngle |-> 0, satelliteAngle |-> 0, sightings |-> <<>>,
     lastSighting |-> -1, wasVisible |-> FALSE]

\* SatelliteSimulation.reset(): wasVisible is not among the fields it writes
SatelliteResetSim(s) ==
    [s EXCEPT !.time = 0, !.earthAngle = 0, !.satelliteAngle = 0, !.sightings = <<>>,
              !.lastSighting = -1]

\* the two while loops of checkVisibility(): normalise to [-pi, pi]
RECURSIVE NormalizeAngle(_)
NormalizeAngle(a) ==
    IF a > SatellitePi THEN NormalizeAngle(a - 2 * SatellitePi)
    ELSE IF a < -SatellitePi THEN NormalizeAngle(a + 2 * SatellitePi)
    ELSE a

\* Math.abs(relAngle) < 0.175, with observerAngleOnEarth = 0
SatelliteIsVisible(s) ==
    Abs(NormalizeAngle(s.satelliteAngle - s.earthAngle)) * PiMilli < 175 * SatellitePi

\* checkVisibility()
CheckVisibility(s) ==
    LET isVisible == SatelliteIsVisible(s)
        s1 == IF isVisible /\ ~s.wasVisible
              THEN [s EXCEPT !.sightings =
                                 TrailPush(s.sightings,
                                           [time |-> s.time, earthAngle |-> s.earthAngle,
                                            satAngle |-> s.satelliteAngle], 10),
                             !.lastSighting = s.time]
              ELSE s
    IN [s1 EXCEPT !.wasVisible = isVisible]

\* SatelliteSimulation.update(deltaTimeHours, 1); JavaScript's % keeps the sign
\* of the dividend, so satelliteAngle stays in (-2 pi, 0]
SatelliteUpdate(s, deltaHours) ==
    LET e == (s.earthAngle + (SatelliteOmegaEarth * deltaHours) \div 1000) % (2 * SatellitePi)
        a == -((-s.satelliteAngle + (SatelliteOmega * deltaHours) \div 1000) % (2 * SatellitePi))
    IN CheckVisibility([s EXCEPT !.time = s.time + deltaHours, !.earthAngle = e,
                                 !.satelliteAngle = a])

\* the loop of skipTo(hours): n calls of update(dt, 1), one after the other
\* (evaluated as two halves to keep the nesting shallow; the test on s.time,
\* which never holds, has the argument evaluated before the call)
RECURSIVE SatelliteUpdateTimes(_, _, _)
SatelliteUpdateTimes(s, dt, n) ==
    IF n = 0 \/ s.time < 0 THEN s
    ELSE IF n = 1 THEN SatelliteUpdate(s, dt)
    ELSE SatelliteUpdateTimes(SatelliteUpdateTimes(s, dt, n \div 2), dt, n - n \div 2)

\* SatelliteSimulation.skipTo(hours): hours * 100 steps of hours / steps
SkipTo(s, hours) == SatelliteUpdateTimes(s, 1000 \div 100, hours * 100)

\* animate(timestamp): deltaHours = deltaTime * state.speedMultiplier * 0.5
SatelliteAnimate ==
    /\ page = "satellite"
    /\ \E h \in frames, gap \in CoarseGaps :
        IF ~isPlaying THEN GuardedReturn(h)
        ELSE LET dt == ClampDelta(gap)
                 s1 == SatelliteUpdate(sim, (dt * SatelliteSpeedMultiplier) \div 2)
             IN /\ s1.time <= MaxSatelliteTime
                /\ StdAnimate(h, dt, s1, FALSE)

\* fast-btn click
SatelliteFast ==
    /\ page = "satellite"
    /\ sim.time + SatelliteSkipHours * 1000 <= MaxSatelliteTime
    /\ sim' = SkipTo(sim, SatelliteSkipHours)
    /\ calls' = [NoCalls("jump") EXCEPT !.stepper = TRUE, !.render = TRUE]
    /\ UNCHANGED <<page, isPlaying, animationFrame, frames, playDisabled, pauseDisabled,
                   timers, driver>>

SatellitePlay == page = "satellite" /\ PlayClick
SatellitePause == page = "satellite" /\ PauseClick
SatelliteReset == page = "satellite" /\ ResetClick(SatelliteResetSim(sim))

SatelliteInit ==
    /\ page = "satellite"
    /\ DriverInit
    /\ sim = SatelliteSimInit

SatelliteNext ==
    \/ SatelliteAnimate \/ SatelliteFast \/ SatellitePlay \/ SatellitePause \/ SatelliteReset

SpecSatellite == SatelliteInit /\ [][SatelliteNext]_vars

(***************************************************************************)
(* "Last t seconds" ball-throw page (src/unnamed/part_003, second script).  *)
(* Heights in um, velocities in mm/s, times in ms.                         *)
(***************************************************************************)

\* CONFIG.physics
ThrowU == 20
ThrowG == 10
ThrowTLast == 1
\* state.speedMultiplier at page load is 0.5: scaled deltas are halved
ThrowSpeedDen == 2

\* calculateTheoreticalValues()
ThrowTotalAscentTime == (ThrowU * 1000) \div ThrowG
ThrowMaxHeight == (ThrowU * ThrowU * 1000000) \div (2 * ThrowG)
ThrowIntervalStart == Max(0, ThrowTotalAscentTime - ThrowTLast * 1000)
ThrowIntervalEnd == ThrowTotalAscentTime

\* BallThrowSimulation.reset().  The arrays trail and intervalPositions, which
\* update() only appends to and the drawing functions read, are left out.
\* supplied is not a field of the program: it is the sum of the scaled deltas
\* passed to update() since reset().
ThrowSimInit ==
    [time |-> 0, height |-> 0, velocity |-> ThrowU * 1000, phase |-> "ascending",
     inInterval |-> FALSE, completed |-> FALSE, symmetryTime |-> 0, symmetryHeight |-> 0,
     supplied |-> 0]

\* the 'ascending' branch of update()
ThrowAscend(s, scaledDelta) ==
    LET t == s.time + scaledDelta
        v == ThrowU * 1000 - ThrowG * t
        h == ThrowU * 1000 * t - (ThrowG * t * t) \div 2
        s1 == [s EXCEPT !.time = t, !.velocity = v, !.height = h,
                        !.inInterval = (t >= ThrowIntervalStart /\ t <= ThrowIntervalEnd)]
    IN IF t >= ThrowTotalAscentTime
       THEN [s1 EXCEPT !.phase = "descending", !.time = 0, !.velocity = 0,
                       !.height = ThrowMaxHeight]
       ELSE s1

\* the 'descending' branch of update()
ThrowDescend(s, scaledDelta) ==
    LET t == s.time + scaledDelta
        h == ThrowMaxHeight - (ThrowG * t * t) \div 2
        s1 == [s EXCEPT !.time = t, !.velocity = -(ThrowG * t), !.height = h]
        s2 == IF t <= ThrowTLast * 1000
              THEN [s1 EXCEPT !.symmetryTime = t, !.symmetryHeight = ThrowMaxHeight - h]
              ELSE s1
    IN IF h <= 0
       THEN [s2 EXCEPT !.height = 0, !.phase = "complete", !.completed = TRUE]
       ELSE s2

\* BallThrowSimulation.update(deltaTime, speedMultiplier); it returns completed
ThrowUpdate(s, deltaTime) ==
    LET scaledDelta == deltaTime \div ThrowSpeedDen
        s0 == [s EXCEPT !.supplied = @ + scaledDelta]
    IN IF s.phase = "ascending" THEN ThrowAscend(s0, scaledDelta)
       ELSE IF s.phase = "descending" THEN ThrowDescend(s0, scaledDelta)
       ELSE s

\* BallThrowSimulation.getDisplayTime()
ThrowDisplayTime(s) ==
    IF s.phase = "ascending" THEN s.time
    ELSE IF s.phase = "descending" THEN ThrowTotalAscentTime + s.time
    ELSE ThrowTotalAscentTime * 2

\* animate(timestamp)
ThrowAnimate ==
    /\ page = "ballthrow"
    /\ \E h \in frames, gap \in SmallGaps :
        IF ~isPlaying THEN GuardedReturn(h)
        ELSE LET s1 == ThrowUpdate(sim, ClampDelta(gap))
             IN StdAnimate(h, ClampDelta(gap), s1, s1.completed)

ThrowPlay == page = "ballthrow" /\ PlayClick
ThrowPause == page = "ballthrow" /\ PauseClick
ThrowReset == page = "ballthrow" /\ ResetClick(ThrowSimInit)

ThrowInit ==
    /\ page = "ballthrow"
    /\ DriverInit
    /\ sim = ThrowSimInit

ThrowNext == ThrowAnimate \/ ThrowPlay \/ ThrowPause \/ ThrowReset

SpecThrow == ThrowInit /\ [][ThrowNext]_vars

(***************************************************************************)
(* Satellite energy-ratio page (src/dualball-simulation/simulation.js,     *)
(* second script).  Angles in urad, times in ms, radii in 1000 km.         *)
(***************************************************************************)

\* CONSTANTS.G * CONSTANTS.M_earth, in 10^9 m^3/s^2
EnergyGM == 398589
\* the factor Satellite.update() scales the angular velocity by
EnergyScale == 500
\* the orbital radius init() and resetSimulation() create the satellite with
EnergyInitialRadius == 10
\* CONFIG.canvas.trailLength
EnergyTrailLength == 100
\* 2 * Math.PI
EnergyTwoPi == 6283185

\* the values of the radius slider explored
EnergyRadii == {10, 20}

\* the frame gaps explored: those of the other trail pages, and a frame that
\* follows a minute in which the tab was hidden
EnergyGaps == CoarseGaps \cup {60000}

\* Bounds of the model: a frame is explored only from an angle of at most
\* MaxEnergyAngle, and a handler that renders only while the trail holds fewer
\* than MaxEnergyTrail entries.
MaxEnergyAngle == 100000
MaxEnergyTrail == 3

\* Satellite.calculateOrbitalParameters(): angularVelocity = sqrt(G M / r^3),
\* here times the scale of update(), in mrad/s
EnergyOmega(r) ==
    ISqrt((((((EnergyGM * EnergyScale) \div 1000) * EnergyScale) \div 1000) * 1000)
            \div (r * r * r))

\* Satellite.update(deltaTime, speedMultiplier) at speed 1
EnergyUpdate(s, dt) ==
    LET a == s.angle + EnergyOmega(s.radius) * dt
    IN [s EXCEPT !.angle = IF a > EnergyTwoPi THEN a - EnergyTwoPi ELSE a]

\* render(): drawSatellite() appends the satellite's canvas position, which
\* the angle and the radius determine, to state.trail
EnergyRender(s) ==
    [s EXCEPT !.trail = TrailPush(s.trail, <<s.angle, s.radius>>, EnergyTrailLength)]

\* init(): new Satellite(initialRadius), then render()
EnergySimInit ==
    EnergyRender([angle |-> 0, radius |-> EnergyInitialRadius, showVectors |-> TRUE,
                  showTrail |-> TRUE, trail |-> <<>>])

\* animate(timestamp): the delta is not clamped
EnergyAnimate ==
    /\ page = "energy"
    /\ \E h \in frames, gap \in EnergyGaps :
        IF ~isPlaying THEN GuardedReturn(h)
        ELSE LET s1 == EnergyUpdate(sim, gap)
             IN /\ sim.angle <= MaxEnergyAngle
                /\ Len(sim.trail) < MaxEnergyTrail
                /\ StdAnimate(h, gap, EnergyRender(s1), FALSE)

EnergyPlay == page = "energy" /\ PlayClick
EnergyPause == page = "energy" /\ PauseClick

\* resetSimulation(): a new satellite, an empty trail, then render()
EnergyReset ==
    /\ page = "energy"
    /\ ResetClick(EnergyRender([sim EXCEPT !.angle = 0, !.radius = EnergyInitialRadius,
                                          !.trail = <<>>]))

\* radius-slider input
EnergyRadiusSlider ==
    /\ page = "energy"
    /\ \E r \in EnergyRadii :
        sim' = EnergyRender([sim EXCEPT !.radius = r, !.trail = <<>>])
    /\ calls' = [NoCalls("slider") EXCEPT !.render = TRUE]
    /\ UNCHANGED <<page, isPlaying, animationFrame, frames, playDisabled, pauseDisabled,
                   timers, driver>>

\* show-vectors change
EnergyToggleVectors ==
    /\ page = "energy"
    /\ Len(sim.trail) < MaxEnergyTrail
    /\ sim' = EnergyRender([sim EXCEPT !.showVectors = ~@])
    /\ calls' = [NoCalls("vectors") EXCEPT !.render = TRUE]
    /\ UNCHANGED <<page, isPlaying, animationFrame, frames, playDisabled, pauseDisabled,
                   timers, driver>>

\* show-trail change: unchecking empties the trail
EnergyToggleTrail ==
    /\ page = "energy"
    /\ Len(sim.trail) < MaxEnergyTrail
    /\ sim' = EnergyRender([sim EXCEPT !.showTrail = ~@,
                                      !.trail = IF sim.showTrail THEN <<>> ELSE @])
    /\ calls' = [NoCalls("trail") EXCEPT !.render = TRUE]
    /\ UNCHANGED <<page, isPlaying, animationFrame, frames, playDisabled, pauseDisabled,
                   timers, driver>>

EnergyInit ==
    /\ page = "energy"
    /\ DriverInit
    /\ sim = EnergySimInit

EnergyNext ==
    \/ EnergyAnimate \/ EnergyPlay \/ EnergyPause \/ EnergyReset
    \/ EnergyRadiusSlider \/ EnergyToggleVectors \/ EnergyToggleTrail

SpecEnergy == EnergyInit /\ [][EnergyNext]_vars

(***************************************************************************)
(* Projectile kinetic-energy page (src/unnamed/part_002,                   *)
(* KEProjectileSimulation).  Times in ms, angles in degrees, speeds in m/s.*)
(***************************************************************************)

\* this.angle, this.velocity and this.timeStep at construction
KEAngle == 30
KEVelocity == 20
KETimeStep == 50
\* this.g, in units of 0.1 m/s^2
KEGTenths == 98
\* the time one click on the step button adds
KEStepTime == 100
\* play() restarts a run whose time is within this much of the flight time
KERestartMargin == 10

\* the values of the angle slider and of the velocity slider explored
KEAngles == {30, 45}
KEVelocities == {20, 25}

\* 1000 * Math.sin(this.toRadians(a)), rounded
KESinMilli(a) == IF a = 30 THEN 500 ELSE IF a = 45 THEN 707 ELSE 866

\* calculateTrajectory().tTotal = 2 * vy / g, rounded up to ms (the quotient
\* is not whole for the values explored): a whole number t of ms is below
\* tTotal exactly when it is below this value
KETotalTime(s) == (2 * s.velocity * KESinMilli(s.angle) * 10) \div KEGTenths + 1

\* new KEProjectileSimulation()
KESimInit == [time |-> 0, angle |-> KEAngle, velocity |-> KEVelocity]

\* one run of animate(), called by a frame callback or by play(), while
\* isPlaying is true
KEAnimateBody(fs, s) ==
    LET nh == NewHandle(fs, animationFrame) IN
    IF s.time < KETotalTime(s)
    THEN /\ sim' = [s EXCEPT !.time = @ + KETimeStep]
         /\ isPlaying' = TRUE
         /\ animationFrame' = nh
         /\ frames' = fs \cup {nh}
         /\ driver' = "Playing"
         /\ calls' = [op |-> "frame", stepper |-> TRUE, render |-> TRUE, raf |-> TRUE,
                      terminal |-> FALSE, dt |-> KETimeStep]
    ELSE \* this.time = tTotal; pause() cancels this.animationId
         /\ sim' = [s EXCEPT !.time = KETotalTime(s)]
         /\ isPlaying' = FALSE
         /\ animationFrame' = animationFrame
         /\ frames' = CancelFrame(fs, animationFrame)
         /\ driver' = "Stopped"
         /\ calls' = [op |-> "frame", stepper |-> TRUE, render |-> TRUE, raf |-> FALSE,
                      terminal |-> TRUE, dt |-> 0]

\* animate(), as a frame callback
KEAnimate ==
    /\ page = "ke"
    /\ \E h \in frames :
        IF ~isPlaying THEN GuardedReturn(h)
        ELSE /\ KEAnimateBody(frames \ {h}, sim)
             /\ UNCHANGED <<page, playDisabled, pauseDisabled, timers>>

\* play-btn click: togglePlay(), i.e. pause() or play(); play() calls
\* animate() itself
KEToggle ==
    /\ page = "ke"
    /\ IF isPlaying
       THEN /\ isPlaying' = FALSE
            /\ frames' = CancelFrame(frames, animationFrame)
            /\ driver' = "Paused"
            /\ calls' = NoCalls("pause")
            /\ UNCHANGED <<page, animationFrame, playDisabled, pauseDisabled, sim, timers>>
       ELSE /\ Cardinality(frames) < MaxOutstanding
            /\ KEAnimateBody(frames,
                   IF sim.time >= KETotalTime(sim) - KERestartMargin
                   THEN [sim EXCEPT !.time = 0] ELSE sim)
            /\ UNCHANGED <<page, playDisabled, pauseDisabled, timers>>

\* step-btn click
KEStep ==
    /\ page = "ke"
    /\ sim.time < KETotalTime(sim)
    /\ sim' = [sim EXCEPT !.time = Min(@ + KEStepTime, KETotalTime(sim))]
    /\ calls' = [NoCalls("step") EXCEPT !.stepper = TRUE, !.render = TRUE]
    /\ UNCHANGED <<page, isPlaying, animationFrame, frames, playDisabled, pauseDisabled,
                   timers, driver>>

\* reset(): pause(), then time = 0, with the model's constants set to s
KEResetTo(s, op) ==
    /\ isPlaying' = FALSE
    /\ frames' = CancelFrame(frames, animationFrame)
    /\ sim' = [s EXCEPT !.time = 0]
    /\ driver' = "Stopped"
    /\ calls' = [NoCalls(op) EXCEPT !.render = TRUE]
    /\ UNCHANGED <<page, animationFrame, playDisabled, pauseDisabled, timers>>

\* reset-btn click
KEReset == page = "ke" /\ KEResetTo(sim, "reset")

\* angle-slider input: updateAngle() ends with reset()
KEAngleSlider ==
    /\ page = "ke"
    /\ \E a \in KEAngles : KEResetTo([sim EXCEPT !.angle = a], "slider")

\* velocity-slider input: the handler ends with reset()
KEVelocitySlider ==
    /\ page = "ke"
    /\ \E v \in KEVelocities : KEResetTo([sim EXCEPT !.velocity = v], "slider")

KEInit ==
    /\ page = "ke"
    /\ DriverInit
    /\ sim = KESimInit

KENext ==
    \/ KEAnimate \/ KEToggle \/ KEStep \/ KEReset \/ KEAngleSlider \/ KEVelocitySlider

SpecKE == KEInit /\ [][KENext]_vars

(***************************************************************************)
(* Dual-ball drop page (src/dualball-simulation/simulation.js, first       *)
(* script).  Times in ms, heights in um, velocities in mm/s.               *)
(***************************************************************************)

\* CONFIG.physics.g, in units of 0.1 m/s^2
DualGTenths == 98
\* CONFIG.physics.totalTime
DualTotalTime == 5000
\* this.ball1FallTime, this.ball2FallTime
DualBall1FallTime == 5000
DualBall2FallTime == 3000
\* dropTime of ball 1 and of ball 2
DualBall1DropTime == 0
DualBall2DropTime == 2000

\* the values of the speed buttons explored
DualSpeeds == {1, 2}
\* the options of the quiz question: the correct one and two wrong ones
DualQuizOptions == {"correct", "wrongA", "wrongB"}

\* 0.5 * g * t * t
DualFallen(t) == ((DualGTenths \div 2) * t * t) \div 10

\* a ball as the constructor and reset() leave it.  The array trail (at most
\* 60 heights), which only the renderer reads, is left out.
DualBallInit(id) ==
    LET h == DualFallen(IF id = 1 THEN DualBall1FallTime ELSE DualBall2FallTime)
    IN [id |-> id, dropTime |-> IF id = 1 THEN DualBall1DropTime ELSE DualBall2DropTime,
        initialHeight |-> h, height |-> h, velocity |-> 0, falling |-> FALSE,
        landed |-> FALSE]

\* the landing test of update() with < for <=
DualBallUpdateStrict(b, time) ==
    IF time >= b.dropTime /\ ~b.landed
    THEN LET fallTime == time - b.dropTime
             height == b.initialHeight - DualFallen(fallTime)
         IN IF height < 0
            THEN [b EXCEPT !.falling = TRUE, !.height = 0, !.landed = TRUE,
                           !.velocity = (DualGTenths * (IF b.id = 1 THEN DualBall1FallTime
                                                         ELSE DualBall2FallTime)) \div 10]
            ELSE [b EXCEPT !.falling = TRUE, !.height = height,
                           !.velocity = (DualGTenths * fallTime) \div 10]
    ELSE b

\* the body of update()'s loop over the balls
DualBallUpdate(b, time) ==
    IF time >= b.dropTime /\ ~b.landed
    THEN LET fallTime == time - b.dropTime
             height == b.initialHeight - DualFallen(fallTime)
         IN IF height <= 0
            THEN [b EXCEPT !.falling = TRUE, !.height = 0, !.landed = TRUE,
                           !.velocity = (DualGTenths * (IF b.id = 1 THEN DualBall1FallTime
                                                         ELSE DualBall2FallTime)) \div 10]
            ELSE [b EXCEPT !.falling = TRUE, !.height = height,
                           !.velocity = (DualGTenths * fallTime) \div 10]
    ELSE b

\* DualBallSimulation.update(deltaTime, speedMultiplier)
DualUpdate(s, deltaTime) ==
    LET t == Min(s.time + deltaTime * s.speedMultiplier, DualTotalTime)
    IN [s EXCEPT !.time = t,
                 !.balls = [i \in {1, 2} |-> DualBallUpdate(s.balls[i], t)]]

\* the value update() returns
DualCompleted(s) == \A i \in {1, 2} : s.balls[i].landed

\* the quiz as the page loads: no option marked, the feedback hidden
DualQuizInit == [correctMarked |-> FALSE, wrongMarked |-> "none", shown |-> FALSE,
                 feedback |-> "none"]

\* state and state.simulation at page load
DualSimInit ==
    [time |-> 0, balls |-> [i \in {1, 2} |-> DualBallInit(i)], speedMultiplier |-> 1,
     quiz |-> DualQuizInit]

\* animate(timestamp)
DualAnimate ==
    /\ page = "dualball"
    /\ \E h \in frames, gap \in SmallGaps :
        IF ~isPlaying THEN GuardedReturn(h)
        ELSE LET s1 == DualUpdate(sim, ClampDelta(gap))
             IN StdAnimate(h, ClampDelta(gap), s1, DualCompleted(s1))

DualPlay == page = "dualball" /\ PlayClick
DualPause == page = "dualball" /\ PauseClick

\* resetSimulation(): simulation.reset(), the quiz marks removed and the
\* feedback hidden
DualReset ==
    /\ page = "dualball"
    /\ ResetClick([sim EXCEPT !.time = 0,
                              !.balls = [i \in {1, 2} |-> DualBallInit(i)],
                              !.quiz = [@ EXCEPT !.correctMarked = FALSE,
                                                 !.wrongMarked = "none",
                                                 !.shown = FALSE]])

\* skip-btn click
DualSkip ==
    /\ page = "dualball"
    /\ sim' = [sim EXCEPT !.time = DualTotalTime,
                          !.balls = [i \in {1, 2} |->
                              [sim.balls[i] EXCEPT !.height = 0, !.landed = TRUE,
                                  !.velocity = (DualGTenths * (IF i = 1 THEN DualBall1FallTime
                                                               ELSE DualBall2FallTime)) \div 10]]]
    /\ calls' = [NoCalls("skip") EXCEPT !.render = TRUE]
    /\ UNCHANGED <<page, isPlaying, animationFrame, frames, playDisabled, pauseDisabled,
                   timers, driver>>

\* speed-btn click
DualSpeedClick ==
    /\ page = "dualball"
    /\ \E v \in DualSpeeds : sim' = [sim EXCEPT !.speedMultiplier = v]
    /\ calls' = NoCalls("speed")
    /\ UNCHANGED <<page, isPlaying, animationFrame, frames, playDisabled, pauseDisabled,
                   timers, driver>>

\* the quiz after a click on option o: every mark is removed, the correct
\* option marked, a wrong chosen option marked, the feedback set and shown
DualQuizAnswer(q, o) ==
    [correctMarked |-> TRUE, wrongMarked |-> IF o = "correct" THEN "none" ELSE o,
     shown |-> TRUE, feedback |-> IF o = "correct" THEN "correct" ELSE "wrong"]

\* quiz-option click
DualQuizClick ==
    /\ page = "dualball"
    /\ \E o \in DualQuizOptions : sim' = [sim EXCEPT !.quiz = DualQuizAnswer(@, o)]
    /\ calls' = NoCalls("quiz")
    /\ UNCHANGED <<page, isPlaying, animationFrame, frames, playDisabled, pauseDisabled,
                   timers, driver>>

DualInit ==
    /\ page = "dualball"
    /\ DriverInit
    /\ sim = DualSimInit

DualNext ==
    \/ DualAnimate \/ DualPlay \/ DualPause \/ DualReset \/ DualSkip
    \/ DualSpeedClick \/ DualQuizClick

SpecDual == DualInit /\ [][DualNext]_vars

(***************************************************************************)
(* Custom force-law page (src/forcelaw-simulation/simulation.js, first     *)
(* script).  Times in ms, angles in urad, angular velocities in urad/ms.   *)
(***************************************************************************)

\* the radius new OrbitalSystem(1) starts with
ForceInitialRadius == 1
\* the trail cap in animate()
ForceTrailCap == 150
\* 2 * Math.PI
ForceTwoPi == 6283185

\* the values of the radius slider explored
ForceRadii == {1, 4}

\* Bounds of the model: a frame is explored only while the system's clock
\* stays at most MaxForceTime, and the radius slider is moved only while the
\* clock is at most MaxForceSliderTime.
MaxForceTime == 15300
MaxForceSliderTime == 200

\* calculateAngularVelocity(): 2 pi / T with T^2 = 4 pi^2 R^(7/2) (k = m = 1),
\* i.e. 1 / sqrt(R^3 * sqrt(R)) rad/s
ForceOmega(R) == 10000 \div ISqrt(100 * R * R * R * ISqrt(R))

\* OrbitalSystem.update(deltaTime, 1)
ForceUpdate(s, dt) ==
    LET a == s.angle + ForceOmega(s.R) * dt
        wrap == a >= ForceTwoPi
    IN [s EXCEPT !.time = @ + dt,
                 !.angle = IF wrap THEN a - ForceTwoPi ELSE a,
                 !.orbitCount = IF wrap THEN @ + 1 ELSE @]

\* state and new OrbitalSystem(1) at page load.  A trail entry is the position
\* update() returns, which R and the angle determine; state.dataPoints and
\* state.showVectors, which only the drawing functions read, are left out.
ForceSimInit ==
    [R |-> ForceInitialRadius, angle |-> 0, time |-> 0, orbitCount |-> 0,
     showTrail |-> TRUE, trail |-> <<>>]

\* animate(timestamp)
ForceAnimate ==
    /\ page = "forcelaw"
    /\ \E h \in frames, gap \in CoarseGaps :
        IF ~isPlaying THEN GuardedReturn(h)
        ELSE LET s1 == ForceUpdate(sim, ClampDelta(gap))
                 s2 == [s1 EXCEPT !.trail = TrailPush(@, <<s1.R, s1.angle>>, ForceTrailCap)]
             IN /\ s1.time <= MaxForceTime
                /\ StdAnimate(h, ClampDelta(gap), s2, FALSE)

ForcePlay == page = "forcelaw" /\ PlayClick
ForcePause == page = "forcelaw" /\ PauseClick

\* resetSimulation()
ForceReset ==
    /\ page = "forcelaw"
    /\ ResetClick([sim EXCEPT !.R = ForceInitialRadius, !.angle = 0, !.time = 0,
                              !.orbitCount = 0, !.trail = <<>>])

\* radius-slider input
ForceRadiusSlider ==
    /\ page = "forcelaw"
    /\ sim.time <= MaxForceSliderTime
    /\ \E r \in ForceRadii : sim' = [sim EXCEPT !.R = r, !.trail = <<>>]
    /\ calls' = [NoCalls("slider") EXCEPT !.render = TRUE]
    /\ UNCHANGED <<page, isPlaying, animationFrame, frames, playDisabled, pauseDisabled,
                   timers, driver>>

\* show-trail change
ForceToggleTrail ==
    /\ page = "forcelaw"
    /\ sim' = [sim EXCEPT !.showTrail = ~@]
    /\ calls' = [NoCalls("trail") EXCEPT !.render = TRUE]
    /\ UNCHANGED <<page, isPlaying, animationFrame, frames, playDisabled, pauseDisabled,
                   timers, driver>>

ForceInit ==
    /\ page = "forcelaw"
    /\ DriverInit
    /\ sim = ForceSimInit

ForceNext ==
    \/ ForceAnimate \/ ForcePlay \/ ForcePause \/ ForceReset
    \/ ForceRadiusSlider \/ ForceToggleTrail

SpecForce == ForceInit /\ [][ForceNext]_vars

(***************************************************************************)
(* Kepler's-third-law page (src/unnamed/part_001, first script).           *)
(* Radii in 10^10 m, periods in units of 100 s, page time in ms, angles in *)
(* urad.                                                                   *)
(***************************************************************************)

\* CONFIG.physics.R1, CONFIG.physics.R2
KeplerR1 == 100
KeplerR2 == 1
\* (10^10 m)^3 / (CONFIG.physics.G * CONFIG.physics.M_sun), in (100 s)^2:
\* 10^30 / (6.67430e-11 * 1.989e30) / 10^4
KeplerCubeOverGM == 753285
\* 2 * Math.PI, in thousandths and in urad
KeplerTwoPiMilli == 6283
KeplerTwoPi == 6283185
\* the real seconds the inner planet takes for one orbit (baseTimeScale = T2 / 5)
KeplerInnerSeconds == 5

\* the values of the speed buttons explored
KeplerSpeeds == {1, 2}

\* Bound of the model: a frame is explored only while the page time the
\* stepper has accumulated at speed 1 stays at most this many ms.
MaxKeplerTime == 5400

\* a period that grows with R instead of R^(3/2)
CalculatePeriodLinear(R) ==
    LET root == R * ISqrt(KeplerCubeOverGM)
    IN KeplerTwoPiMilli * (root \div 1000) + (KeplerTwoPiMilli * (root % 1000)) \div 1000

\* calculatePeriod(R) = 2 pi sqrt(R^3 / (G M)); the root of R^3 * c is taken
\* as R * sqrt(R * c), which keeps the product within the integers of the
\* model checker
CalculatePeriod(R) ==
    LET root == R * ISqrt(R * KeplerCubeOverGM)
    IN KeplerTwoPiMilli * (root \div 1000) + (KeplerTwoPiMilli * (root % 1000)) \div 1000

\* new SolarSystem(): planet 1 on R1, planet 2 on R2, T = calculatePeriod(R).
\* elapsed is simulationTime / baseTimeScale; the planets' trails, which only
\* drawPlanets() writes and reads, are left out.
KeplerSimInit ==
    [planets |-> [i \in {1, 2} |->
                     LET R == IF i = 1 THEN KeplerR1 ELSE KeplerR2
                     IN [R |-> R, T |-> CalculatePeriod(R), angle |-> 0]],
     elapsed |-> 0, innerOrbits |-> 0, speedMultiplier |-> 1]

\* SolarSystem.update(deltaTime, speedMultiplier): simDelta is
\* deltaTime * (T2 / 5) * speedMultiplier and each angle grows by
\* (2 pi / T) * simDelta
KeplerUpdate(s, dt) ==
    LET d == dt * s.speedMultiplier
        inner == (KeplerTwoPi * d) \div (KeplerInnerSeconds * 1000)
        step(i) == (inner * s.planets[2].T) \div s.planets[i].T
        a(i) == s.planets[i].angle + step(i)
    IN [s EXCEPT !.elapsed = @ + d,
                 !.planets = [i \in {1, 2} |->
                     [s.planets[i] EXCEPT !.angle = IF a(i) >= KeplerTwoPi
                                                    THEN a(i) - KeplerTwoPi ELSE a(i)]],
                 !.innerOrbits = IF a(2) >= KeplerTwoPi THEN @ + 1 ELSE @]

\* animate(timestamp)
KeplerAnimate ==
    /\ page = "kepler"
    /\ \E h \in frames, gap \in CoarseGaps :
        IF ~isPlaying THEN GuardedReturn(h)
        ELSE LET s1 == KeplerUpdate(sim, ClampDelta(gap))
             IN /\ s1.elapsed <= MaxKeplerTime
                /\ StdAnimate(h, ClampDelta(gap), s1, FALSE)

KeplerPlay == page = "kepler" /\ PlayClick
KeplerPause == page = "kepler" /\ PauseClick

\* resetSimulation(): solarSystem.reset()
KeplerReset ==
    /\ page = "kepler"
    /\ ResetClick([sim EXCEPT !.elapsed = 0, !.innerOrbits = 0,
                              !.planets = [i \in {1, 2} |-> [sim.planets[i] EXCEPT !.angle = 0]]])

\* speed-btn click
KeplerSpeedClick ==
    /\ page = "kepler"
    /\ \E v \in KeplerSpeeds : sim' = [sim EXCEPT !.speedMultiplier = v]
    /\ calls' = NoCalls("speed")
    /\ UNCHANGED <<page, isPlaying, animationFrame, frames, playDisabled, pauseDisabled,
                   timers, driver>>

KeplerInit ==
    /\ page = "kepler"
    /\ DriverInit
    /\ sim = KeplerSimInit

KeplerNext ==
    \/ KeplerAnimate \/ KeplerPlay \/ KeplerPause \/ KeplerReset \/ KeplerSpeedClick

SpecKepler == KeplerInit /\ [][KeplerNext]_vars

(***************************************************************************)
(* Half-escape-speed page (src/halfesc-simulation/simulation.js).          *)
(* Lengths in km, speeds in m/s, angles in hundredths of a radian.         *)
(***************************************************************************)

\* this.G * this.M_earth, in 10^6 m^3/s^2
HalfEscGM == 398571280
\* this.R_earth, km
HalfEscREarth == 6371
\* const angularSpeed = 0.02
HalfEscAngularSpeed == 2
\* the quiz buttons' data-answer values
HalfEscQuizOptions == {"correct", "wrong"}

\* Bound of the model: frames are explored while the angle is below this value.
MaxHalfEscAngle == 60

\* Math.sqrt(2 * this.G * this.M_earth / this.R_earth), with the root taken to
\* a multiple of 2 m/s so that halving it is exact, as halving a double is
HalfEscVEscape == 2 * ISqrt((((2 * HalfEscGM) \div HalfEscREarth) * 1000) \div 4)

\* new HalfEscapeSimulation(): the calculated values, angle and the quiz DOM
HalfEscSimInit ==
    [v_escape |-> HalfEscVEscape,
     v_orbital |-> HalfEscVEscape \div 2,
     orbitRadius |-> 2 * HalfEscREarth,
     height |-> HalfEscREarth,
     angle |-> 0,
     quizDisabled |-> FALSE,
     feedback |-> "none"]

\* one run of the closure animate() of play(), while isPlaying is true
HalfEscAnimateBody(fs) ==
    LET nh == NewHandle(fs, animationFrame)
    IN /\ sim' = [sim EXCEPT !.angle = @ + HalfEscAngularSpeed]
       /\ animationFrame' = nh
       /\ frames' = fs \cup {nh}
       /\ calls' = [op |-> "frame", stepper |-> TRUE, render |-> TRUE, raf |-> TRUE,
                    terminal |-> FALSE, dt |-> 0]

\* animate(), as a frame callback
HalfEscAnimate ==
    /\ page = "halfesc"
    /\ \E h \in frames :
        IF ~isPlaying THEN GuardedReturn(h)
        ELSE /\ sim.angle < MaxHalfEscAngle
             /\ HalfEscAnimateBody(frames \ {h})
             /\ UNCHANGED <<page, isPlaying, playDisabled, pauseDisabled, timers, driver>>

\* play-btn click: toggleAnimation(), i.e. pause() or play(); play() calls
\* animate() itself
HalfEscToggle ==
    /\ page = "halfesc"
    /\ IF isPlaying
       THEN /\ isPlaying' = FALSE
            /\ frames' = CancelFrame(frames, animationFrame)
            /\ driver' = "Paused"
            /\ calls' = NoCalls("pause")
            /\ UNCHANGED <<page, animationFrame, playDisabled, pauseDisabled, sim, timers>>
       ELSE /\ sim.angle < MaxHalfEscAngle
            /\ Cardinality(frames) < MaxOutstanding
            /\ isPlaying' = TRUE
            /\ driver' = "Playing"
            /\ HalfEscAnimateBody(frames)
            /\ UNCHANGED <<page, playDisabled, pauseDisabled, timers>>

\* reset() re-deriving the orbit from the angle it has just cleared
HalfEscResetSimDerived(s) ==
    [s EXCEPT !.angle = 0, !.quizDisabled = FALSE, !.feedback = "none",
              !.orbitRadius = 0, !.height = 0]

\* reset(): pause(), angle = 0, the quiz cleared
HalfEscResetSim(s) == [s EXCEPT !.angle = 0, !.quizDisabled = FALSE, !.feedback = "none"]

\* reset-btn click
HalfEscReset ==
    /\ page = "halfesc"
    /\ isPlaying' = FALSE
    /\ frames' = CancelFrame(frames, animationFrame)
    /\ sim' = HalfEscResetSim(sim)
    /\ driver' = "Stopped"
    /\ calls' = [NoCalls("reset") EXCEPT !.render = TRUE]
    /\ UNCHANGED <<page, animationFrame, playDisabled, pauseDisabled, timers>>

\* quiz-option click: handleQuizAnswer(e); a disabled button receives no click
HalfEscQuizClick ==
    /\ page = "halfesc"
    /\ ~sim.quizDisabled
    /\ \E o \in HalfEscQuizOptions :
        sim' = [sim EXCEPT !.quizDisabled = TRUE, !.feedback = o]
    /\ calls' = NoCalls("quiz")
    /\ UNCHANGED <<page, isPlaying, animationFrame, frames, playDisabled, pauseDisabled,
                   timers, driver>>

HalfEscInit ==
    /\ page = "halfesc"
    /\ DriverInit
    /\ sim = HalfEscSimInit

HalfEscNext ==
    \/ HalfEscAnimate \/ HalfEscToggle \/ HalfEscReset \/ HalfEscQuizClick

SpecHalfEsc == HalfEscInit /\ [][HalfEscNext]_vars

(***************************************************************************)
(* Stone-throw page (src/stonethrow-simulation/simulation.js).             *)
(* Times in ms (always a multiple of 10 ms here), heights in mm,           *)
(* velocities in mm/s.                                                     *)
(***************************************************************************)

\* CONFIG.physics: g in tenths of m/s^2, maxHeight in m, timeToMaxHeight in s
StoneGTenths == 98
StoneMaxHeight == 500
StoneTimeToMaxHeight == 10

\* this.initialVelocity = this.g * this.timeToMaxHeight, mm/s
StoneInitialVelocity == StoneGTenths * 100 * StoneTimeToMaxHeight

\* this.timeToFall = Math.sqrt((2 * this.maxHeight) / this.g), ms
StoneTimeToFall == ISqrt(((2 * StoneMaxHeight * 1000000) \div StoneGTenths) * 10)

\* this.totalTime
StoneTotalTime == StoneTimeToMaxHeight * 1000 + StoneTimeToFall

\* 0.5 * this.g * t * t, mm, for t in ms
StoneHalfGT2(t) == ((((StoneGTenths \div 2) * t) \div 10) * (t \div 10)) \div 100

\* new StoneThrowSimulation() and reset()
StoneSimInit ==
    [time |-> 0, height |-> 0, velocity |-> StoneInitialVelocity, phase |-> "Ready"]

\* StoneThrowSimulation.update(deltaTime); the return value is StoneCompleted
StoneUpdate(s, deltaTime) ==
    LET t == s.time + deltaTime IN
    IF t >= StoneTotalTime
    THEN [time |-> StoneTotalTime, height |-> 0, velocity |-> 0, phase |-> "Landed"]
    ELSE IF t <= StoneTimeToMaxHeight * 1000
    THEN [time |-> t,
          height |-> Max(0, (StoneInitialVelocity \div 1000) * t - StoneHalfGT2(t)),
          velocity |-> StoneInitialVelocity - (StoneGTenths * t) \div 10,
          phase |-> "Rising"]
    ELSE LET fallTime == t - StoneTimeToMaxHeight * 1000
         IN [time |-> t,
             height |-> Max(0, StoneMaxHeight * 1000 - StoneHalfGT2(fallTime)),
             velocity |-> -((StoneGTenths * fallTime) \div 10),
             phase |-> "Falling"]

StoneCompleted(s, deltaTime) == s.time + deltaTime >= StoneTotalTime

\* animate(timestamp)
StoneAnimate ==
    /\ page = "stonethrow"
    /\ \E h \in frames, gap \in SmallGaps :
        IF ~isPlaying THEN GuardedReturn(h)
        ELSE LET dt == ClampDelta(gap)
             IN StdAnimate(h, dt, StoneUpdate(sim, dt), StoneCompleted(sim, dt))

StonePlay == page = "stonethrow" /\ PlayClick
StonePause == page = "stonethrow" /\ PauseClick
StoneReset == page = "stonethrow" /\ ResetClick(StoneSimInit)

StoneInit ==
    /\ page = "stonethrow"
    /\ DriverInit
    /\ sim = StoneSimInit

StoneNext ==
    \/ StoneAnimate \/ StonePlay \/ StonePause \/ StoneReset

SpecStone == StoneInit /\ [][StoneNext]_vars

(***************************************************************************)
(* All pages: one page is loaded, then its handlers run in any order.      *)
(***************************************************************************)

Init ==
    \/ DropsInit \/ WastageInit \/ FreefallInit \/ AirInit \/ TrainInit
    \/ GravityInit \/ MaxHeightInit

Next ==
    \/ DropsNext \/ WastageNext \/ FreefallNext \/ AirNext \/ TrainNext
    \/ GravityNext \/ MaxHeightNext

Spec == Init /\ [][Next]_vars

(***************************************************************************)
(* Properties.                                                             *)
(***************************************************************************)

\* C1: at any time at most one animation frame is requested and not yet
\* fired or cancelled (checked on the falling-water-drops page).
C1_AtMostOneFrameOutstanding == Cardinality(frames) <= 1

\* C2: reset() leaves the driver Stopped with no frame outstanding and every
\* model field, the speed the trains compute with included, at its page-load
\* value (checked on the train page).
C2_ResetRestoresPageLoad ==
    (page = "train" /\ calls.op = "reset")
        => (~isPlaying /\ driver = "Stopped" /\ frames = {} /\ sim = TrainSimInit)

\* C3: the frame callback in which the stepper signals the terminal condition
\* stops the driver and requests no further frame, so none is outstanding when
\* it returns.
C3_TerminalFrameRequestsNothing ==
    (calls.op = "frame" /\ calls.terminal)
        => (~isPlaying /\ driver = "Stopped" /\ ~calls.raf /\ frames = {})

\* the kinematic state of the brick: time, height, velocity, phase
WastageKinematic(s) == <<s.time, s.height, s.velocity, s.phase>>

\* C4: between pause() and the next play() or reset(), no field of the
\* kinematic state changes, whatever frame callbacks or timers fire.
C4_PausedStateRetained ==
    [][(page = "wastage" /\ driver = "Paused" /\ driver' = "Paused")
         => WastageKinematic(sim') = WastageKinematic(sim)]_vars

\* C5: a frame callback that fires while isPlaying is false calls neither the
\* stepper nor the renderer and requests no new frame: it leaves the model and
\* the driver as they are and only leaves the list of outstanding frames; so a
\* frame callback runs the stepper only while the driver is playing.  (The
\* jump buttons run the stepper while the driver is stopped, see
\* C5_StepperOnlyWhilePlaying.)
C5_StaleFrameDoesNothing ==
    [][(calls'.op = "frame" /\ ~isPlaying)
         => /\ ~calls'.stepper /\ ~calls'.render /\ ~calls'.raf
            /\ sim' = sim /\ timers' = timers
            /\ ~isPlaying' /\ animationFrame' = animationFrame
            /\ frames' \subseteq frames
            /\ Cardinality(frames') = Cardinality(frames) - 1]_vars

\* a frame callback has fired while the driver was not playing, and returned
\* at its guard
C5_StaleFrameFired ==
    /\ calls.op = "frame" /\ ~calls.stepper /\ ~calls.raf
    /\ ~isPlaying

\* C5 as stated: whichever handler invokes the stepper, the driver is Playing
\* when it does
C5_StepperOnlyWhilePlaying ==
    [][calls'.stepper => (isPlaying /\ driver = "Playing")]_vars

\* C6: once the stepper has reached its terminal condition, a further update
\* call leaves every field of the kinematic state, elapsed time included,
\* unchanged.
C6_TerminalUpdateIsNoOp ==
    [][(page = "wastage" /\ sim.phase = "landed" /\ calls'.stepper)
         => WastageKinematic(sim') = WastageKinematic(sim)]_vars

\* C7: after every stepper call the current height and every height recorded
\* in the trail buffer are >= 0.
C7_HeightsNonNegative ==
    page = "wastage"
        => (sim.height >= 0 /\ \A i \in 1..Len(sim.trail) : sim.trail[i] >= 0)

\* C8: after every stepper call the height is at most the model's own
\* maximum-height constant (checked on the air-resistance page).
C8_HeightWithinMax ==
    page = "air"
        => /\ 0 <= sim.idealHeight /\ sim.idealHeight <= AirIdealMaxHeight
           /\ 0 <= sim.realHeight /\ sim.realHeight <= AirRealMaxHeight

\* C9: while the driver is Playing the elapsed simulated time never decreases
\* from one frame to the next.
C9_TimeNonDecreasing ==
    [][(page = "wastage" /\ isPlaying /\ isPlaying' /\ calls'.op = "frame")
         => sim'.time >= sim.time]_vars

\* C10: the elapsed-time delta a frame callback hands to the stepper is at most
\* 0.1 s (100 ms), however far apart the two timestamps are.
C10_DeltaAtMostTenthSecond == (calls.op = "frame" /\ calls.stepper) => calls.dt <= 100

\* the fields of the satellite model that reset() writes and the page shows
SatelliteShown(s) == <<s.time, s.earthAngle, s.satelliteAngle, s.sightings, s.lastSighting>>

\* C11: a stepper call made on the model as reset() leaves it yields the state
\* the same call yields after page load: on the satellite page, whenever a
\* frame runs update() on a model whose time, angles and sightings have their
\* page-load values, the resulting time, angles and sightings are those that
\* update() with the same dt produces from the page-load model.
C11_ReplayAfterResetSame ==
    [][(page = "satellite" /\ calls'.op = "frame" /\ calls'.stepper
        /\ SatelliteShown(sim) = SatelliteShown(SatelliteSimInit))
         => SatelliteShown(sim')
              = SatelliteShown(SatelliteUpdate(SatelliteSimInit,
                                   (calls'.dt * SatelliteSpeedMultiplier) \div 2))]_vars

\* C12: on the brick-throw page a run that is Playing, whose frames keep firing
\* and whose pending timers fire, reaches the terminal condition with the
\* driver Stopped, unless it is paused or reset first.
C12_PlayingRunTerminates ==
    (page = "wastage" /\ driver = "Playing")
      ~> \/ driver = "Paused"
         \/ calls.op = "reset"
         \/ (driver = "Stopped" /\ ~isPlaying /\ sim.phase = "landed")

\* a run went through the target and the top, landed in a frame, and that
\* frame stopped the driver
C12_RunLanded ==
    /\ page = "wastage" /\ calls.op = "frame" /\ calls.terminal
    /\ driver = "Stopped" /\ sim.phase = "landed"
    /\ sim.reachedTarget /\ sim.reachedMax

\* C13: on the ball-throw page, after every stepper call before landing, the
\* height is u*t - g*t^2/2 and the velocity is u - g*t, where t is the sum of
\* the scaled deltas supplied since reset.
C13_HeightMatchesTextbook ==
    (page = "ballthrow" /\ calls.stepper /\ sim.phase \in {"ascending", "descending"})
      => /\ sim.height = ThrowU * 1000 * sim.supplied
                           - (ThrowG * sim.supplied * sim.supplied) \div 2
         /\ sim.velocity = ThrowU * 1000 - ThrowG * sim.supplied


\* C14: on the free-fall page the first frame that runs the stepper after a
\* play click advances the simulated time by no more than the wall-clock time
\* that passed since that click, times the speed factor, however long the
\* page stood paused before the click.
C14_ResumeSkipsPause ==
    [][(page = "freefall" /\ calls.op = "play" /\ calls'.op = "frame" /\ calls'.stepper)
        => sim'.currentTime - sim.currentTime <= sim'.wall * FreefallSpeed]_vars

\* a first frame after a play click that followed a pause of at least one wait
C14_ResumedAfterPause ==
    /\ page = "freefall"
    /\ calls.op = "frame"
    /\ calls.stepper
    /\ sim.pausedFor >= sim.wall
    /\ sim.wall > 0
    /\ sim.currentTime > sim.wall
    /\ sim.currentTime < FreefallTotalTime


\* C15: on the satellite energy page a handler that calls render and not the
\* stepper (the show-vectors checkbox, which assigns state.showVectors and
\* renders) leaves every other field of the page state, the trail buffer
\* included, as it was.
C15_RenderWritesNoState ==
    [][(page = "energy" /\ calls'.op = "vectors" /\ calls'.render /\ ~calls'.stepper)
        => [sim' EXCEPT !.showVectors = sim.showVectors] = sim]_vars


\* C16: on the projectile kinetic-energy page a slider input event leaves the
\* elapsed time and the driver state (isPlaying, Playing / Paused / Stopped)
\* as they were before the event.
C16_SliderKeepsTimeAndDriver ==
    [][(page = "ke" /\ calls'.op = "slider")
        => (sim'.time = sim.time /\ isPlaying' = isPlaying /\ driver' = driver)]_vars


\* C17: on the dual-ball page, once an option of the quiz question is marked,
\* a click on an option leaves the marks and the feedback text as the first
\* click set them.
C17_QuizLockedAfterFirstClick ==
    [][(page = "dualball" /\ sim.quiz.correctMarked /\ calls'.op = "quiz")
        => sim'.quiz = sim.quiz]_vars


\* C19: on the dual-ball page, after every operation and for every sequence of
\* frame deltas and speeds, each ball is landed exactly when the simulated
\* time has reached totalTime = 5.0 s: neither ball is landed before, and the
\* stepper call in which time reaches 5.0 s lands both.
C19_BothLandAtFive ==
    page = "dualball" => \A i \in {1, 2} : sim.balls[i].landed <=> sim.time >= DualTotalTime

\* the frame in which the time reached 5.0 s, with both balls released by the
\* stepper from 122.5 m and 44.1 m and landed
C19_LandedTogether ==
    /\ page = "dualball"
    /\ calls.op = "frame"
    /\ calls.terminal
    /\ sim.time = DualTotalTime
    /\ sim.balls[1].initialHeight = 122500000
    /\ sim.balls[2].initialHeight = 44100000
    /\ \A i \in {1, 2} : sim.balls[i].falling /\ sim.balls[i].landed /\ sim.balls[i].height = 0


\* C18: on the force-law page the trail buffer holds at most its cap of 150
\* entries after every operation, and a frame that adds an entry to the full
\* buffer removes the oldest entry and keeps the others in order.
C18_TrailCappedFifo ==
    /\ [](page = "forcelaw" => Len(sim.trail) <= ForceTrailCap)
    /\ [][(page = "forcelaw" /\ calls'.op = "frame" /\ calls'.stepper
           /\ Len(sim.trail) = ForceTrailCap)
          => sim'.trail = Append(Tail(sim.trail), <<sim'.R, sim'.angle>>)]_vars

\* a frame that pushed onto the full buffer: the trail holds 150 entries and
\* the entry of the run's first frame is gone
C18_OldestEvicted ==
    /\ page = "forcelaw"
    /\ calls.op = "frame"
    /\ calls.stepper
    /\ Len(sim.trail) = ForceTrailCap
    /\ sim.time > ForceTrailCap * 100
    /\ sim.trail[ForceTrailCap] = <<sim.R, sim.angle>>
    /\ sim.trail[1] # sim.trail[ForceTrailCap]


\* C20: on the Kepler page the periods the model computes for R1 = 10^12 m and
\* R2 = 10^10 m, which the planets carry, satisfy T1 / T2 = 1000 to within 1 %.
C20_PeriodRatioThousand ==
    page = "kepler" =>
        /\ sim.planets[1].R = 100 * sim.planets[2].R
        /\ 990 * sim.planets[2].T <= sim.planets[1].T
        /\ sim.planets[1].T <= 1010 * sim.planets[2].T

\* the inner planet has completed an orbit while the outer one, whose period
\* is calculatePeriod(R1), has moved on
C20_InnerOrbitDone ==
    /\ page = "kepler"
    /\ calls.op = "frame"
    /\ calls.stepper
    /\ sim.planets[1].T = CalculatePeriod(KeplerR1)
    /\ sim.planets[2].T = CalculatePeriod(KeplerR2)
    /\ sim.innerOrbits = 1
    /\ sim.planets[1].angle > 0

\* C21: on the half-escape-speed page, in every reachable state the orbital
\* speed is half the escape speed, the orbit radius is twice the Earth's
\* radius and the displayed height is one Earth radius.
C21_HalfEscapeRelations ==
    page = "halfesc"
        => /\ 2 * sim.v_orbital = sim.v_escape
           /\ sim.v_escape > 0
           /\ sim.orbitRadius = 2 * HalfEscREarth
           /\ sim.height = HalfEscREarth
           /\ sim.height = sim.orbitRadius - HalfEscREarth

\* C21 witness: the satellite has moved, the quiz was answered and the page
\* was paused
C21_OrbitedAndAnswered ==
    /\ page = "halfesc"
    /\ sim.angle > 0
    /\ sim.quizDisabled
    /\ driver = "Paused"

\* C22: on the gravity-series page, once reset has put the page in INITIAL
\* with runningTotal = 0 and no point masses, it stays so until Play or Step
\* is clicked, whatever timer fires in between.
C22_ResetStaysInitial ==
    [][(/\ page = "gravity"
        /\ sim.currentState = "initial"
        /\ sim.runningTotal = 0
        /\ sim.pointMasses = <<>>
        /\ calls'.op \notin {"play", "step"})
          => (/\ sim'.currentState = "initial"
              /\ sim'.runningTotal = 0
              /\ sim'.pointMasses = <<>>)]_vars

RECURSIVE GravitySumForces(_, _)
\* forces[0] + ... + forces[n - 1]
GravitySumForces(forces, n) ==
    IF n = 0 THEN 0 ELSE GravitySumForces(forces, n - 1) + forces[n]

\* C23: on the gravity-series page, in every reachable state runningTotal is
\* the sum of the first currentForceIndex forces computed for the current M
\* and m.
C23_TotalIsSumOfCountedForces ==
    page = "gravity"
        => sim.runningTotal =
               GravitySumForces(GravityForces(GravityNumMasses, sim.M, sim.m),
                                sim.currentForceIndex)

\* C24: on the gravity-series page a run that is neither paused nor reset,
\* whose frames and timers keep firing, reaches COMPLETE once it is playing,
\* and once COMPLETE the page stays COMPLETE with runningTotal unchanged.
C24_CompletesAndStaysComplete ==
    /\ (page = "gravity" /\ driver = "Playing") ~> (sim.currentState = "complete")
    /\ [][(page = "gravity" /\ sim.currentState = "complete")
            => (/\ sim'.currentState = "complete"
                /\ sim'.runningTotal = sim.runningTotal)]_vars

\* the closed-form height at time t of the drop released at releaseTime
DropsClosedFormHeight(releaseTime, t) ==
    IF t < releaseTime THEN DropsHeight0
    ELSE Max(DropsHeight0
               - (DropsG * (t - releaseTime) * (t - releaseTime)) \div 2, 0)

\* C25: on the falling-water-drops page, whenever the page is frozen at the
\* critical moment (isFrozen, time 2.0 s), every drop is at its closed-form
\* height for t = 2.0 s.
C25_FrozenDropsAtClosedForm ==
    (page = "drops" /\ sim.isFrozen /\ sim.currentTime = DropsTotalTime)
        => \A i \in 1..DropsNumDrops :
               sim.drops[i].y = DropsClosedFormHeight((i - 1) * DropsDt, DropsTotalTime)

\* C26: on the falling-water-drops page, as on the free-fall page, a click on
\* Play right after the frame that ended the run starts a new run: time 0
\* and every drop (the ball) back at the top of the building.
C26_PlayAfterEndRestarts ==
    [][(page \in {"drops", "freefall"} /\ calls.op = "frame" /\ calls.terminal
          /\ calls'.op = "play")
        => /\ sim'.currentTime = 0
           /\ page = "drops" => sim'.drops = InitDrops
           /\ page = "freefall" => sim'.ball = FreefallSimInit.ball]_vars

\* C27: on the free-fall page, after a click on the last-second button the
\* time is 3 s and the ball is in its closed-form state for t = 3 s: distance
\* g*3^2/2, velocity 3*g, 9 storeys fallen.
C27_JumpGivesStateAtThree ==
    (page = "freefall" /\ calls.op = "jump")
        => /\ sim.currentTime = FreefallLastSecond
           /\ sim.ball.y = (FreefallG * FreefallLastSecond * FreefallLastSecond) \div 2
           /\ sim.ball.velocity = FreefallG * FreefallLastSecond
           /\ sim.ball.storeysFallen = 9

\* CONFIG.physics.relativePeriod (hours)
SatelliteRelativePeriod == 6

\* the largest step of update(): a frame with the clamped delta
SatelliteMaxStep == (ClampDelta(1000) * SatelliteSpeedMultiplier) \div 2

\* C28: on the retrograde-satellite page any two consecutive recorded
\* sightings are 6 simulated hours apart, to within one update step.
C28_SightingsSixHoursApart ==
    page = "satellite"
        => \A i \in 1..(Len(sim.sightings) - 1) :
               Abs(sim.sightings[i + 1].time - sim.sightings[i].time
                     - SatelliteRelativePeriod * 1000) <= SatelliteMaxStep

\* a bound on the change of height within one clamped frame that passes the
\* apex: g * dt^2 for the clamped dt of 0.1 s, mm
StoneApexStep == (StoneGTenths * ClampDelta(1000) * ClampDelta(1000)) \div 10000

\* C29: on the stone-throw page the stone is at its maximum height of 500 m
\* at t = 10 s, and the height does not jump in the frame that takes the
\* stone from the rising to the falling branch.
C29_ApexAtMaxHeightNoJump ==
    /\ []((page = "stonethrow" /\ sim.time = StoneTimeToMaxHeight * 1000)
            => sim.height = StoneMaxHeight * 1000)
    /\ [][(page = "stonethrow" /\ sim.phase = "Rising" /\ sim'.phase = "Falling")
            => Abs(sim'.height - sim.height) <= StoneApexStep]_vars

\* C30: on the orbit pages the stored angle (train position) lies within
\* [0, 2 pi] after every frame.
C30_AngleWithinTwoPi ==
    /\ (page = "energy" /\ calls.op = "frame" /\ calls.stepper)
          => (sim.angle >= 0 /\ sim.angle <= EnergyTwoPi)
    /\ (page = "train" /\ calls.op = "frame" /\ calls.stepper)
          => \A k \in {"A", "B"} :
                 sim.trains[k].position >= 0 /\ sim.trains[k].position <= TwoPiMilli

====
